---- MODULE Spec2Model ----
(***************************************************************************)
(* Model of the rarime-rn-sdk orchestration code: the Rarime registration  *)
(* flow (src/src/Rarime.ts, src/src/Rarimo.ts), the FreedomTool voting     *)
(* flow (src/src/Freedomtool.ts), the passport eligibility checks          *)
(* (src/src/RarimePassport.ts) and the chain / relayer / prover they talk  *)
(* to.  Every await of the source is one step of the flow; the chain, the  *)
(* relayers and the prover are the environment.                            *)
(***************************************************************************)
EXTENDS Integers, Sequences, FiniteSets, TLC

\* ------------------------------------------------------------------ bounds
\* number of user private scalars
MaxKey == 2
\* number of on-chain updates of the registration tree that are followed
MaxRoot == 3
\* width, in characters, of an MRZ date string (6 in a real MRZ)
DateLen == 3
\* largest date value, written as a zero-padded decimal MRZ date string
MaxDate == 2
\* largest wall-clock timestamp
MaxTime == 2

\* ------------------------------------------------------- program constants
\* new Uint8Array(64)
ZERO_BYTES == 64
\* userPrivateKey.length !== 64
PrivateKeyLength == 64
\* padStart(64, "0")
PaddedHexLength == 64
\* const ROOT_VALIDITY = 3600n (scaled to the model's clock)
ROOT_VALIDITY == 1

\* ----------------------------------------------------------------- strings
\* A hex string is the triple (has a "0x" prefix, number of hex digits,
\* numeric value); two strings are === exactly when the triples are equal.
HexStr(pfx, len, val) == [pfx |-> pfx, len |-> len, val |-> val]

\* "0x" + s
Prefix0x(s) == [s EXCEPT !.pfx = TRUE]

\* the bytes32 hex string ethers returns for the value v
Bytes32Hex(v) == HexStr(TRUE, 64, v)

\* number of hex digits of a value of the model (all are below 16)
HexDigits(v) == IF v < 16 THEN 1 ELSE 2

Max(a, b) == IF a >= b THEN a ELSE b

\* utils/hex.ts: "0x" + BigInt(input).toString(16).padStart(64, "0")
toPaddedHex32(v) == HexStr(TRUE, Max(PaddedHexLength, HexDigits(v)), v)

\* toPaddedHex32 of a value that is a hash, kept as the hash itself
toPaddedHex32Of(h) == [pfx |-> TRUE, len |-> PaddedHexLength, val |-> h]

\* "0x" + Array.from(ZERO_BYTES).map((b) => b.toString(16)).join("")
ZERO_BYTES_STRING == HexStr(TRUE, ZERO_BYTES * HexDigits(0), 0)

\* ------------------------------------------------------------------- keys
SK == 1..MaxKey

\* the private scalar of the caller; the other scalars belong to other users
CallerKey == CHOOSE sk \in SK : \A other \in SK : sk <= other

\* RarimeUtils.getProfileKey: Poseidon(Base8 * sk), an injective map of the
\* private scalar into the non-zero identities; returned without "0x".
ProfileKeyValue(sk) == sk + 1

getProfileKey(pk) == HexStr(FALSE, Max(PaddedHexLength, HexDigits(pk.val)), ProfileKeyValue(pk.val))

\* identities the registry can hold: zero, an identity of no modelled user,
\* and the profile keys of the users
Identities == 0..(MaxKey + 1)

\* Rarime constructor: strips "0x", requires 64 characters
RarimeConstructor(key) ==
  LET stripped == IF key.pfx THEN [key EXCEPT !.pfx = FALSE] ELSE key
  IN  IF stripped.len # PrivateKeyLength THEN [ok |-> FALSE, key |-> stripped]
      ELSE [ok |-> TRUE, key |-> stripped]

\* ------------------------------------------------------- document status
NotRegistered == "NOT_REGISTERED"
RegisteredWithThisPk == "REGISTERED_WITH_THIS_PK"
RegisteredWithOtherPk == "REGISTERED_WITH_OTHER_PK"

\* Rarime.getDocumentStatus, the classification of the active identity
DocumentStatusOf(activeIdentity, userPrivateKey) ==
  IF activeIdentity = ZERO_BYTES_STRING THEN NotRegistered
  ELSE IF activeIdentity = userPrivateKey THEN RegisteredWithThisPk
  ELSE RegisteredWithOtherPk

\* ------------------------------------------------------ algorithm registry
ID_SHA_1 == "1.3.14.3.2.26"
SHA_1_WITH_RSA_ENCRYPTION == "1.2.840.113549.1.1.5"
ID_SHA_224 == "2.16.840.1.101.3.4.2.4"
SHA_224_WITH_RSA_ENCRYPTION == "1.2.840.113549.1.1.14"
ECDSA_WITH_SHA_224 == "1.2.840.10045.4.3.1"
ID_SHA_256 == "2.16.840.1.101.3.4.2.1"
SHA_256_WITH_RSA_ENCRYPTION == "1.2.840.113549.1.1.11"
ECDSA_WITH_SHA_256 == "1.2.840.10045.4.3.2"
ID_SHA_384 == "2.16.840.1.101.3.4.2.2"
SHA_384_WITH_RSA_ENCRYPTION == "1.2.840.113549.1.1.12"
ECDSA_WITH_SHA_384 == "1.2.840.10045.4.3.3"
ID_SHA_512 == "2.16.840.1.101.3.4.2.3"
SHA_512_WITH_RSA_ENCRYPTION == "1.2.840.113549.1.1.13"
ECDSA_WITH_SHA_512 == "1.2.840.10045.4.3.4"
RSA_ENCRYPTION == "1.2.840.113549.1.1.1"
ID_RSASSA_PSS == "1.2.840.113549.1.1.10"
\* an OID that is in no table
UNKNOWN_OID == "1.2.840.0.0"

Unsupported == "UNSUPPORTED"

\* a lookup whose default branch answers SHA256
HashAlgorithmFromOidDefaulting(oid) ==
  IF oid \in {ID_SHA_1, SHA_1_WITH_RSA_ENCRYPTION} THEN "SHA1"
  ELSE IF oid \in {ID_SHA_224, SHA_224_WITH_RSA_ENCRYPTION, ECDSA_WITH_SHA_224} THEN "SHA224"
  ELSE IF oid \in {ID_SHA_384, SHA_384_WITH_RSA_ENCRYPTION, ECDSA_WITH_SHA_384} THEN "SHA384"
  ELSE IF oid \in {ID_SHA_512, SHA_512_WITH_RSA_ENCRYPTION, ECDSA_WITH_SHA_512} THEN "SHA512"
  ELSE "SHA256"

\* HashAlgorithm.fromOid
HashAlgorithmFromOid(oid) ==
  IF oid \in {ID_SHA_1, SHA_1_WITH_RSA_ENCRYPTION} THEN "SHA1"
  ELSE IF oid \in {ID_SHA_224, SHA_224_WITH_RSA_ENCRYPTION, ECDSA_WITH_SHA_224} THEN "SHA224"
  ELSE IF oid \in {ID_SHA_256, SHA_256_WITH_RSA_ENCRYPTION, ECDSA_WITH_SHA_256} THEN "SHA256"
  ELSE IF oid \in {ID_SHA_384, SHA_384_WITH_RSA_ENCRYPTION, ECDSA_WITH_SHA_384} THEN "SHA384"
  ELSE IF oid \in {ID_SHA_512, SHA_512_WITH_RSA_ENCRYPTION, ECDSA_WITH_SHA_512} THEN "SHA512"
  ELSE Unsupported

\* SignatureAlgorithm.fromOID
SignatureAlgorithmFromOID(oid) ==
  IF oid \in {SHA_1_WITH_RSA_ENCRYPTION, SHA_224_WITH_RSA_ENCRYPTION,
              SHA_256_WITH_RSA_ENCRYPTION, SHA_384_WITH_RSA_ENCRYPTION,
              SHA_512_WITH_RSA_ENCRYPTION, RSA_ENCRYPTION} THEN "RSA"
  ELSE IF oid = ID_RSASSA_PSS THEN "RSA-PSS"
  ELSE IF oid \in {ECDSA_WITH_SHA_224, ECDSA_WITH_SHA_256,
                   ECDSA_WITH_SHA_384, ECDSA_WITH_SHA_512} THEN "ECDSA"
  ELSE Unsupported

\* ------------------------------------------------------------ MRZ values
\* Strings of the MRZ are sequences of ASCII codes.
Pow(b, e) == IF e = 0 THEN 1 ELSE IF e = 1 THEN b ELSE IF e = 2 THEN b * b
             ELSE IF e = 3 THEN b * b * b ELSE b * b * b * b

IsDigit(c) == c \in 48..57

\* BigInt("0x" + Buffer.from(s).toString("hex")): the bytes as a big-endian integer
AsciiBigInt(s) ==
  LET F[i \in 0..Len(s)] == IF i = 0 THEN 0 ELSE F[i - 1] * 256 + s[i]
  IN  F[Len(s)]

SyntaxErrorValue == -1

\* BigInt(s) of JavaScript: the decimal value of a string of digits, 0 for
\* the empty string, a SyntaxError for any other string
JsBigInt(s) ==
  LET F[i \in 0..Len(s)] == IF i = 0 THEN 0 ELSE F[i - 1] * 10 + (s[i] - 48)
  IN  IF \A i \in 1..Len(s) : IsDigit(s[i]) THEN F[Len(s)] ELSE SyntaxErrorValue

\* the MRZ date string of the date value n: n as zero-padded decimal digits
DateStr(n) == [i \in 1..DateLen |-> 48 + ((n \div Pow(10, DateLen - i)) % 10)]

\* a sentinel that is the number zero
ZeroDateAsNumber == JsBigInt(DateStr(0))

\* the "disabled" date bound: the ASCII encoding of the all-zero MRZ date
MRZ_ZERO_DATE == AsciiBigInt(DateStr(0))

CHAR_M == 77
CHAR_F == 70
CHAR_FILLER == 60

UKR == <<85, 75, 82>>
GEO == <<71, 69, 79>>

\* --------------------------------------------------- eligibility checks
NoError == "OK"
ErrNotStarted == "Voting has not started."
ErrEnded == "Voting has ended."
ErrTimestamp == "Timestamp creation identity is bigger then upperbound"
ErrIdentityCounter == "Identity counter is bigger then upperbound"
ErrCitizen == "Citizen is not in whitelist"
ErrSyntax == "SyntaxError: Cannot convert to a BigInt"
ErrSex == "Sex mismatch"
ErrBirthLower == "Birth date is lower than lowerbound"
ErrBirthUpper == "Birth date is higher than upperbound"
ErrExpiration == "Expiration date is lower than lowerbound"
ErrAlreadyVoted == "User has already voted"

\* RarimePassport.verifyPassport
verifyPassport(criteria, mrz) ==
  IF criteria.citizenshipWhitelist # {}
       /\ AsciiBigInt(mrz.issuingCountry) \notin criteria.citizenshipWhitelist
  THEN ErrCitizen
  ELSE IF criteria.sex # 0 /\ JsBigInt(<<mrz.sex>>) = SyntaxErrorValue THEN ErrSyntax
  ELSE IF criteria.sex # 0 /\ criteria.sex # JsBigInt(<<mrz.sex>>) THEN ErrSex
  ELSE IF criteria.birthDateLowerbound # MRZ_ZERO_DATE
            /\ JsBigInt(mrz.birthDate) = SyntaxErrorValue THEN ErrSyntax
  ELSE IF criteria.birthDateLowerbound # MRZ_ZERO_DATE
            /\ criteria.birthDateLowerbound > JsBigInt(mrz.birthDate) THEN ErrBirthLower
  ELSE IF criteria.birthDateUpperbound # MRZ_ZERO_DATE
            /\ JsBigInt(mrz.birthDate) = SyntaxErrorValue THEN ErrSyntax
  ELSE IF criteria.birthDateUpperbound # MRZ_ZERO_DATE
            /\ criteria.birthDateUpperbound < JsBigInt(mrz.birthDate) THEN ErrBirthUpper
  ELSE IF criteria.expirationDateLowerbound # MRZ_ZERO_DATE
            /\ criteria.expirationDateLowerbound > AsciiBigInt(mrz.expiryDate) THEN ErrExpiration
  ELSE NoError

\* RarimePassport.validate, the earlier revision of the same check
validatePassport(criteria, mrz) ==
  IF criteria.citizenshipWhitelist # {}
       /\ AsciiBigInt(mrz.issuingCountry) \notin criteria.citizenshipWhitelist
  THEN ErrCitizen
  ELSE IF criteria.sex # 0 /\ JsBigInt(<<mrz.sex>>) = SyntaxErrorValue THEN ErrSyntax
  ELSE IF criteria.sex # 0 /\ criteria.sex = JsBigInt(<<mrz.sex>>) THEN ErrSex
  ELSE IF criteria.birthDateLowerbound # MRZ_ZERO_DATE
            /\ JsBigInt(mrz.birthDate) = SyntaxErrorValue THEN ErrSyntax
  ELSE IF criteria.birthDateLowerbound # MRZ_ZERO_DATE
            /\ criteria.birthDateLowerbound > JsBigInt(mrz.birthDate) THEN ErrBirthLower
  ELSE IF criteria.birthDateUpperbound # MRZ_ZERO_DATE
            /\ JsBigInt(mrz.birthDate) = SyntaxErrorValue THEN ErrSyntax
  ELSE IF criteria.birthDateUpperbound # MRZ_ZERO_DATE
            /\ criteria.birthDateUpperbound < JsBigInt(mrz.birthDate) THEN ErrBirthUpper
  ELSE IF criteria.expirationDateLowerbound # MRZ_ZERO_DATE
            /\ criteria.expirationDateLowerbound > AsciiBigInt(mrz.expiryDate) THEN ErrExpiration
  ELSE NoError

\* Rarime.validate: the identity bounds, then the passport checks
validateIdentity(passportInfo, criteria, mrz, revision) ==
  IF passportInfo.issueTimestamp > criteria.timestampUpperbound THEN ErrTimestamp
  ELSE IF passportInfo.identityReissueCounter > criteria.identityCountUpperbound
  THEN ErrIdentityCounter
  ELSE IF revision = "FreedomTool" THEN verifyPassport(criteria, mrz)
  ELSE validatePassport(criteria, mrz)

\* a timing check that only looks at the end of the window
timingCheckEndOnly(nowTimestamp, proposalInfo) ==
  IF nowTimestamp > proposalInfo.startTimestamp + proposalInfo.duration THEN ErrEnded
  ELSE NoError

\* FreedomTool.verify / Freedomtool.validate: the timing window
timingCheck(nowTimestamp, proposalInfo) ==
  IF nowTimestamp < proposalInfo.startTimestamp THEN ErrNotStarted
  ELSE IF nowTimestamp > proposalInfo.startTimestamp + proposalInfo.duration THEN ErrEnded
  ELSE NoError

\* ------------------------------------------------------------------ state
VARIABLES
  userPrivateKey,          \* Rarime.config.userConfiguration.userPrivateKey
  activeIdentity,          \* registry: PassportInfo.activeIdentity of the document
  identityReissueCounter,  \* registry: PassportInfo.identityReissueCounter
  issueTimestamp,          \* registry: IdentityInfo.issueTimestamp
  regTree,                 \* registration SMT: identities with a leaf for the document
  treeRoot,                \* registration SMT: version of its root
  votingSmt,               \* proposal SMT: the nullifiers that voted
  op,                      \* the public method being executed, or "idle"
  revision,                \* the class that implements it
  pc,                      \* the step of the method that comes next
  passport,                \* the RarimePassport argument
  proposal,                \* the ProposalInfo argument
  loc,                     \* the local variables of the method
  trace,                   \* the steps completed without error, in order
  net,                     \* the external calls made, in order
  result,                  \* what the method returned or threw
  fileSystem,              \* expo FileSystem: the files of the noir directory
  downloads,               \* completed downloads of each file
  jobs                     \* the proof generations in flight

vars == <<userPrivateKey, fileSystem, downloads, jobs, activeIdentity, identityReissueCounter, issueTimestamp,
          regTree, treeRoot, votingSmt, op, revision, pc, passport, proposal, loc,
          trace, net, result>>

chainVars == <<activeIdentity, identityReissueCounter, issueTimestamp, regTree, treeRoot,
               votingSmt>>
\* what the application's flows share: the configured key and the file system
sharedVars == <<userPrivateKey, fileSystem, downloads, jobs>>
argVars == <<sharedVars, op, revision, passport, proposal>>

\* ------------------------------------------------------------ arguments
Mrz(country, sex, birth, expiry) ==
  [issuingCountry |-> country, sex |-> sex, birthDate |-> DateStr(birth),
   expiryDate |-> DateStr(expiry)]

Passport(mrz, dgHashAlgo, sigAlgo) ==
  [mrz |-> mrz, dgHashAlgo |-> dgHashAlgo, sigAlgo |-> sigAlgo,
   dg15 |-> [present |-> FALSE, alg |-> "", modulus |-> 0, spk |-> <<>>],
   digest |-> <<0, 0>>]

\* the same document with the given dataGroup15 and digest of its signed attributes
WithKey(p, dg15, digest) == [p EXCEPT !.dg15 = dg15, !.digest = digest]

Criteria(whitelist, sex, birthLo, birthHi, expLo, tsUp, countUp) ==
  [citizenshipWhitelist |-> whitelist, sex |-> sex,
   birthDateLowerbound |-> birthLo, birthDateUpperbound |-> birthHi,
   expirationDateLowerbound |-> expLo,
   timestampUpperbound |-> tsUp, identityCountUpperbound |-> countUp]

Proposal(id, start, duration, criteria) ==
  [id |-> id, startTimestamp |-> start, duration |-> duration, criteria |-> criteria]

NoProposal == Proposal(0, 0, 0, Criteria({}, 0, MRZ_ZERO_DATE, MRZ_ZERO_DATE, MRZ_ZERO_DATE, 0, 0))
NoPassport == Passport(Mrz(UKR, CHAR_M, 0, 0), ID_SHA_256, SHA_256_WITH_RSA_ENCRYPTION)

\* the documents the flows are run with
FlowPassports ==
  { WithKey(Passport(Mrz(UKR, CHAR_M, 1, 1), ID_SHA_256, SHA_256_WITH_RSA_ENCRYPTION),
            [present |-> TRUE, alg |-> "Rsa", modulus |-> 2047, spk |-> <<>>], <<128, 1>>),
    Passport(Mrz(GEO, CHAR_F, MaxDate, MaxDate), UNKNOWN_OID, ECDSA_WITH_SHA_256),
    WithKey(Passport(Mrz(UKR, CHAR_F, 1, MaxDate), ID_SHA_1, ID_RSASSA_PSS),
            [present |-> TRUE, alg |-> "Ecdsa", modulus |-> 0, spk |-> <<4, 0, 1, 0, 2>>],
            <<0, 0>>),
    WithKey(Passport(Mrz(UKR, CHAR_M, 1, 1), ID_SHA_256, SHA_256_WITH_RSA_ENCRYPTION),
            [present |-> TRUE, alg |-> "Rsa", modulus |-> 3, spk |-> <<>>], <<0, 0>>) }

\* -------------------------------------------------------------- results
NoResult == [kind |-> "none", err |-> "", id |-> 0]
Ok(id) == [kind |-> "ok", err |-> "", id |-> id]
Error(msg) == [kind |-> "error", err |-> msg, id |-> 0]

ErrRpc == "RPC call failed"
ErrOtherPk == "This document was registered with other Private Key"
ErrThisPk == "This document was registered with this Private Key"
ErrHashOid == "Not supported ObjectIdentifier for hash algorithm"
ErrSigOid == "Not supported ObjectIdentifier for signature algorithm"
ErrDownload == "Failed to download"
ErrProofEmpty == "Failed to generate proof for noir circuit"
\* `HTTP error ${status}}`: the status alone
ErrHttp == "HTTP error <status>}"
\* `HTTP error ${status}: ${JSON.stringify(errorData)}`: the status and the body
ErrHttpBody == "HTTP error <status>: <body>"
ErrJson == "JSON parse error"
ErrMismatch == "profile key mismatch"

NoInfo == [set |-> FALSE, activeIdentity |-> Bytes32Hex(0),
           identityReissueCounter |-> 0, issueTimestamp |-> 0]
NoSmtProof == [set |-> FALSE, root |-> 0, existence |-> FALSE]
NoInputs == [set |-> FALSE, fields |-> {}, id_state_root |-> 0, existence |-> FALSE]

\* no nullifier computed yet
NoNullifier == [pfx |-> FALSE, len |-> 0, val |-> <<>>]

LocInit ==
  [passportStatus |-> "", passportInfo |-> NoInfo, proof |-> "",
   nowTimestamp |-> 0, eventId |-> 0, alreadyVoted |-> FALSE, voteRead |-> FALSE,
   queryInfo |-> NoInfo, smtProof |-> NoSmtProof, inputs |-> NoInputs,
   callRoot |-> 0, httpStatus |-> 0, nullifier |-> NoNullifier]

\* the answers of the environment
HttpStatuses == {200, 400, 500}
\* a caller that never looks at Response.ok
IsOkUnchecked(status) == TRUE
\* Response.ok
IsOk(status) == status \in 200..299
\* a value the prover module resolves with when it has no proof
JsUndefined == "<undefined>"
ProverOutputs == {"", JsUndefined, "proof"}

\* --------------------------------------------------------------- chain
\* StateKeeper.getPassportInfo(passportKeyHex), as ethers returns it
ReadPassportInfo ==
  [set |-> TRUE, activeIdentity |-> Bytes32Hex(activeIdentity),
   identityReissueCounter |-> identityReissueCounter,
   issueTimestamp |-> issueTimestamp]

\* PoseidonSMT.getProof(index of the document and the caller's profile key)
ReadSmtProof ==
  [set |-> TRUE, root |-> treeRoot,
   existence |-> ProfileKeyValue(userPrivateKey.val) \in regTree]

\* the identity the registry records for a revoked document
REVOKED == 1

\* ProposalsState.getProposalEventId
EventIdOf(proposalId) == proposalId + 100

\* Poseidon.hash, an injective map of its inputs
PoseidonHash(inputs) == inputs

\* a nullifier that leaves the event out of the hash
EventNullifierWithoutEvent(sk, eventId) == toPaddedHex32Of(PoseidonHash(<<sk, PoseidonHash(<<sk>>)>>))

\* Rarime.getEventNullifier computed for the private scalar sk
EventNullifierOf(sk, eventId) == toPaddedHex32Of(PoseidonHash(<<sk, PoseidonHash(<<sk>>), eventId>>))

\* ------------------------------------------------- passport key derivation
\* Widths are scaled: the code's 224 / 200-bit chunks, 65-byte EC point with
\* 32-byte coordinates reduced mod 2^248, and 32-byte digest of which 252
\* bits are packed in 64-bit words keep their shape at a size TLC enumerates.
RECURSIVE Pow2(_)
Pow2(n) == IF n = 0 THEN 1 ELSE 2 * Pow2(n - 1)

RECURSIVE BitLen(_)
\* modulus.toString(2).length
BitLen(n) == IF n < 2 THEN 1 ELSE 1 + BitLen(n \div 2)

\* const chunkSizes = [224, 200, 200, 200, 200]
RsaWideChunk == 3
RsaChunk == 2
chunkSizes == <<RsaWideChunk, RsaChunk, RsaChunk, RsaChunk, RsaChunk>>
\* const requiredBits = 200 * 4 + 224
requiredBits == RsaChunk * 4 + RsaWideChunk

\* keyBytes.length !== 65, 32-byte coordinates, 1n << 248n
EcKeyLength == 5
EcCoordLength == 2
EcReduceBits == 8
\* keyBytes[0] !== 0x04
EC_UNCOMPRESSED == 4

\* new Uint8Array(32), for (let i = 251; ...), accBits === 64
DigestLength == 2
PackedBits == 12
WordBits == 5

Reverse(s) == [i \in 1..Len(s) |-> s[Len(s) + 1 - i]]

\* BigInt("0x" + hex of the bytes)
BytesToInt(bytes) ==
  LET F[i \in 0..Len(bytes)] == IF i = 0 THEN 0 ELSE F[i - 1] * 256 + bytes[i]
  IN  F[Len(bytes)]

ErrModulusShort == "UnsupportedPassportKey: Modulus too short"
ErrEcFormat == "UnsupportedPassportKey: Invalid ECDSA key format"
ErrDg15Oid == "Unsupported public key algorithm OID"

NoKey == [ok |-> FALSE, key |-> <<>>, err |-> ""]
KeyOk(k) == [ok |-> TRUE, key |-> k, err |-> ""]
KeyError(msg) == [ok |-> FALSE, key |-> <<>>, err |-> msg]

\* extractRsaPassportKey: the loop over chunkSizes on the top requiredBits bits
RsaChunkLoop(modulus) ==
  LET shift == BitLen(modulus) - requiredBits
      F[i \in 0..Len(chunkSizes)] ==
        IF i = 0 THEN [topBits |-> modulus \div Pow2(shift), chunks |-> <<>>]
        ELSE [topBits |-> F[i - 1].topBits \div Pow2(chunkSizes[i]),
              chunks |-> Append(F[i - 1].chunks, F[i - 1].topBits % Pow2(chunkSizes[i]))]
  IN  F[Len(chunkSizes)].chunks

\* the chunks left in the order the loop produced them
RsaChunksInLoopOrder(modulus) == RsaChunkLoop(modulus)

\* extractRsaPassportKey: chunks.reverse(), the input of the key hash
RsaChunks(modulus) == Reverse(RsaChunkLoop(modulus))

\* an extractRsaPassportKey that accepts a modulus of any length
extractRsaPassportKeyAnyLength(modulus) ==
  KeyOk(PoseidonHash(RsaChunks(IF BitLen(modulus) < requiredBits
                               THEN modulus + Pow2(requiredBits - 1) ELSE modulus)))

\* RarimePassport.extractRsaPassportKey
extractRsaPassportKey(modulus) ==
  IF BitLen(modulus) < requiredBits THEN KeyError(ErrModulusShort)
  ELSE KeyOk(PoseidonHash(RsaChunks(modulus)))

\* RarimePassport.extractEcdsaPassportKey
extractEcdsaPassportKey(keyBytes) ==
  IF Len(keyBytes) # EcKeyLength \/ keyBytes[1] # EC_UNCOMPRESSED THEN KeyError(ErrEcFormat)
  ELSE LET x == BytesToInt(SubSeq(keyBytes, 2, 1 + EcCoordLength))
           y == BytesToInt(SubSeq(keyBytes, 2 + EcCoordLength, EcKeyLength))
       IN  KeyOk(PoseidonHash(<<x % Pow2(EcReduceBits), y % Pow2(EcReduceBits)>>))

\* dataGroup15: absent, or a SubjectPublicKeyInfo with its algorithm and key
NoDg15 == [present |-> FALSE, alg |-> "", modulus |-> 0, spk |-> <<>>]
RsaDg15(modulus) == [present |-> TRUE, alg |-> "Rsa", modulus |-> modulus, spk |-> <<>>]
EcDg15(spk) == [present |-> TRUE, alg |-> "Ecdsa", modulus |-> 0, spk |-> spk]
OtherDg15 == [present |-> TRUE, alg |-> "Other", modulus |-> 0, spk |-> <<>>]

\* parseDg15Pubkey: the key bytes of an EC key, a leading 0x00 octet removed
EcKeyBytes(spk) == IF Len(spk) > 0 /\ spk[1] = 0 THEN Tail(spk) ELSE spk

\* a reading of the digest that numbers the bits of a byte from its low end
DigestBitFromLowEnd(hashBytes, i) == (hashBytes[(i \div 8) + 1] \div Pow2(i % 8)) % 2

\* the bit of the digest the loop of getPassportHash reads at index i
DigestBit(hashBytes, i) == (hashBytes[(i \div 8) + 1] \div Pow2(7 - (i % 8))) % 2

\* the integer getPassportHash packs: for (i = 251; i >= 0; i--) with the
\* 64-bit accumulator flushed into out
PackDigest(hashBytes) ==
  LET F[n \in 0..PackedBits] ==
        IF n = 0 THEN [out |-> 0, acc |-> 0, accBits |-> 0]
        ELSE LET prev == F[n - 1]
                 acc == prev.acc * 2 + DigestBit(hashBytes, PackedBits - n)
             IN  IF prev.accBits + 1 = WordBits
                 THEN [out |-> prev.out * Pow2(WordBits) + acc, acc |-> 0, accBits |-> 0]
                 ELSE [out |-> prev.out, acc |-> acc, accBits |-> prev.accBits + 1]
      last == F[PackedBits]
  IN  IF last.accBits > 0 THEN last.out * Pow2(last.accBits) + last.acc ELSE last.out

\* RarimePassport.getPassportHash
getPassportHash(p) ==
  IF HashAlgorithmFromOid(p.sigAlgo) = Unsupported THEN KeyError(ErrHashOid)
  ELSE KeyOk(PoseidonHash(<<PackDigest(p.digest)>>))

\* a getPassportKey that falls back to the signed attributes when the
\* active-authentication key is rejected
getPassportKeyWithFallback(p) ==
  LET aa == IF ~p.dg15.present THEN NoKey
            ELSE IF p.dg15.alg = "Ecdsa" THEN extractEcdsaPassportKey(EcKeyBytes(p.dg15.spk))
            ELSE IF p.dg15.alg = "Rsa" THEN extractRsaPassportKey(p.dg15.modulus)
            ELSE KeyError(ErrDg15Oid)
  IN  IF aa.ok THEN aa ELSE getPassportHash(p)

\* RarimePassport.getPassportKey
getPassportKey(p) ==
  IF p.dg15.present
  THEN IF p.dg15.alg = "Ecdsa" THEN extractEcdsaPassportKey(EcKeyBytes(p.dg15.spk))
       ELSE IF p.dg15.alg = "Rsa" THEN extractRsaPassportKey(p.dg15.modulus)
       ELSE KeyError(ErrDg15Oid)
  ELSE getPassportHash(p)

\* a registration of the unregistered document under the profile key of sk
ChainRegister(sk) ==
  /\ treeRoot < MaxRoot
  /\ activeIdentity = 0
  /\ activeIdentity' = ProfileKeyValue(sk)
  /\ regTree' = regTree \cup {ProfileKeyValue(sk)}
  /\ issueTimestamp' = treeRoot + 1
  /\ treeRoot' = treeRoot + 1
  /\ UNCHANGED <<identityReissueCounter, votingSmt, argVars, pc, loc, trace, net, result>>

\* the identity of the document is revoked on chain; its leaf is kept
ChainRevoke ==
  /\ treeRoot < MaxRoot
  /\ activeIdentity \notin {0, REVOKED}
  /\ activeIdentity' = REVOKED
  /\ treeRoot' = treeRoot + 1
  /\ UNCHANGED <<identityReissueCounter, issueTimestamp, regTree, votingSmt, argVars, pc,
                 loc, trace, net, result>>

\* the revoked document is registered again under the profile key of sk
ChainReissue(sk) ==
  /\ treeRoot < MaxRoot
  /\ activeIdentity = REVOKED
  /\ ProfileKeyValue(sk) \notin regTree
  /\ activeIdentity' = ProfileKeyValue(sk)
  /\ regTree' = regTree \cup {ProfileKeyValue(sk)}
  /\ identityReissueCounter' = 1
  /\ issueTimestamp' = treeRoot + 1
  /\ treeRoot' = treeRoot + 1
  /\ UNCHANGED <<votingSmt, argVars, pc, loc, trace, net, result>>

\* another document is registered: only the root of the tree changes
ChainTreeUpdate ==
  /\ treeRoot < MaxRoot
  /\ treeRoot' = treeRoot + 1
  /\ UNCHANGED <<activeIdentity, identityReissueCounter, issueTimestamp, regTree, votingSmt,
                 argVars, pc, loc, trace, net, result>>

\* the vote of the user with private scalar sk on the proposal reaches the
\* chain; the voting contract accepts it with a proof of a registered identity
ChainVote(sk) ==
  /\ ProfileKeyValue(sk) \in regTree
  /\ EventNullifierOf(sk, EventIdOf(1)) \notin votingSmt
  /\ votingSmt' = votingSmt \cup {EventNullifierOf(sk, EventIdOf(1))}
  /\ UNCHANGED <<activeIdentity, identityReissueCounter, issueTimestamp, regTree, treeRoot,
                 argVars, pc, loc, trace, net, result>>

\* ----------------------------------------------------------- flow steps
Fail(msg) ==
  /\ result' = Error(msg)
  /\ pc' = "done"

Idle == op = "idle"

\* a public method returned or threw: the caller takes the outcome
Finish ==
  /\ pc = "done"
  /\ op' = "idle"
  /\ pc' = "idle"
  /\ revision' = ""
  /\ passport' = NoPassport
  /\ proposal' = NoProposal
  /\ loc' = LocInit
  /\ trace' = <<>>
  /\ net' = <<>>
  /\ result' = NoResult
  /\ UNCHANGED <<sharedVars, chainVars>>

\* ------------------------------------------------ Rarime.registerIdentity
\* a registerIdentity that posts the call data without the relayer's verification
RegisterNextPcSkippingVerify(step) ==
  CASE step = "getDocumentStatus" -> "generateLiteRegisterProof"
    [] step = "generateLiteRegisterProof" -> "buildLiteRegisterCalldata"
    [] step = "verifySodRequest" -> "buildLiteRegisterCalldata"
    [] step = "buildLiteRegisterCalldata" -> "sendRegisterLiteTransaction"
    [] step = "sendRegisterLiteTransaction" -> "returnRegister"
    [] OTHER -> "done"

\* registerIdentity: the statement that follows each awaited step
RegisterNextPc(step) ==
  CASE step = "getDocumentStatus" -> "generateLiteRegisterProof"
    [] step = "generateLiteRegisterProof" -> "verifySodRequest"
    [] step = "verifySodRequest" -> "buildLiteRegisterCalldata"
    [] step = "buildLiteRegisterCalldata" -> "sendRegisterLiteTransaction"
    [] step = "sendRegisterLiteTransaction" -> "returnRegister"
    [] OTHER -> "done"

CallRegisterIdentity ==
  /\ Idle
  /\ \E rev \in {"Rarime", "Rarimo"}, p \in FlowPassports :
       /\ revision' = rev
       /\ passport' = p
  /\ op' = "registerIdentity"
  /\ pc' = "getDocumentStatus"
  /\ UNCHANGED <<sharedVars, proposal, chainVars, loc, trace, net, result>>

CallGetDocumentStatus ==
  /\ Idle
  /\ \E p \in FlowPassports : passport' = p
  /\ revision' = "Rarime"
  /\ op' = "getDocumentStatus"
  /\ pc' = "getDocumentStatus"
  /\ UNCHANGED <<sharedVars, proposal, chainVars, loc, trace, net, result>>

\* the status a registerIdentity of this revision rejects
RejectsStatus(rev, status) ==
  \/ status = RegisteredWithThisPk
  \/ status = RegisteredWithOtherPk /\ rev = "Rarime"

\* getDocumentStatus, and in registerIdentity the checks that follow it
GetDocumentStatus ==
  /\ pc = "getDocumentStatus"
  /\ net' = IF getPassportKey(passport).ok THEN Append(net, "getPassportInfo") ELSE net
  /\ \E rpcOk \in BOOLEAN :
       IF ~getPassportKey(passport).ok
       THEN Fail(getPassportKey(passport).err) /\ UNCHANGED <<loc, trace>>
       ELSE IF ~rpcOk THEN Fail(ErrRpc) /\ UNCHANGED <<loc, trace>>
       ELSE LET status == DocumentStatusOf(ReadPassportInfo.activeIdentity, userPrivateKey)
            IN  /\ loc' = [loc EXCEPT !.passportStatus = status,
                                     !.passportInfo = ReadPassportInfo]
                /\ IF op = "getDocumentStatus"
                   THEN /\ result' = Ok(0)
                        /\ pc' = "done"
                        /\ trace' = Append(trace, "CHECK_STATUS")
                   ELSE IF RejectsStatus(revision, status)
                   THEN /\ Fail(IF status = RegisteredWithThisPk THEN ErrThisPk ELSE ErrOtherPk)
                        /\ UNCHANGED trace
                   ELSE IF HashAlgorithmFromOid(passport.dgHashAlgo) = Unsupported
                   THEN Fail(ErrHashOid) /\ UNCHANGED trace
                   ELSE /\ pc' = RegisterNextPc(pc)
                        /\ trace' = Append(trace, "CHECK_STATUS")
                        /\ UNCHANGED result
  /\ UNCHANGED <<argVars, chainVars>>

\* a prove that hands on whatever the prover module answered
ProofMissingUnchecked(proof) == FALSE

\* NoirCircuitParams.prove: if (!proof)
ProofMissing(proof) == proof \in {"", JsUndefined}

\* generateLiteRegisterProof: the downloads, then the prover
GenerateLiteRegisterProof ==
  /\ pc = "generateLiteRegisterProof"
  /\ \E downloaded \in BOOLEAN, out \in ProverOutputs :
       IF ~downloaded THEN Fail(ErrDownload) /\ UNCHANGED <<loc, trace, net>>
       ELSE /\ net' = Append(net, "provePlonk")
            /\ loc' = [loc EXCEPT !.proof = out]
            /\ IF ProofMissing(out) THEN Fail(ErrProofEmpty) /\ UNCHANGED trace
               ELSE /\ trace' = Append(trace, "BUILD_PROOF")
                    /\ pc' = RegisterNextPc(pc)
                    /\ UNCHANGED result
  /\ UNCHANGED <<argVars, chainVars>>

\* verifySodRequest and the parse of its response
VerifySodRequest ==
  /\ pc = "verifySodRequest"
  /\ IF SignatureAlgorithmFromOID(passport.sigAlgo) = Unsupported
     THEN Fail(ErrSigOid) /\ UNCHANGED <<loc, trace, net>>
     ELSE /\ net' = Append(net, "POST registerid")
          /\ \E status \in HttpStatuses, parsed \in BOOLEAN :
               /\ loc' = [loc EXCEPT !.httpStatus = status]
               /\ IF ~IsOk(status) THEN Fail(ErrHttp) /\ UNCHANGED trace
                  ELSE IF ~parsed THEN Fail(ErrJson) /\ UNCHANGED trace
                  ELSE /\ trace' = Append(trace, "VERIFY_SOD")
                       /\ pc' = RegisterNextPc(pc)
                       /\ UNCHANGED result
  /\ UNCHANGED <<argVars, chainVars>>

\* buildLiteRegisterCalldata
BuildLiteRegisterCalldata ==
  /\ pc = "buildLiteRegisterCalldata"
  /\ IF ~getPassportHash(passport).ok
     THEN Fail(getPassportHash(passport).err) /\ UNCHANGED trace
     ELSE /\ trace' = Append(trace, "BUILD_CALLDATA")
          /\ pc' = RegisterNextPc(pc)
          /\ UNCHANGED result
  /\ UNCHANGED <<argVars, chainVars, loc, net>>

\* sendRegisterLiteTransaction
SendRegisterLiteTransaction ==
  /\ pc = "sendRegisterLiteTransaction"
  /\ net' = Append(net, "POST register")
  /\ \E status \in HttpStatuses, parsed \in BOOLEAN :
       /\ loc' = [loc EXCEPT !.httpStatus = status]
       /\ IF ~IsOk(status)
          THEN Fail(IF parsed THEN ErrHttpBody ELSE ErrJson) /\ UNCHANGED trace
          ELSE /\ trace' = Append(trace, "SUBMIT_TX")
               /\ pc' = RegisterNextPc(pc)
               /\ UNCHANGED result
  /\ UNCHANGED <<argVars, chainVars>>

\* the parse of the relayer's answer and the return of its identifier
ReturnRegister ==
  /\ pc = "returnRegister"
  /\ \E parsed \in BOOLEAN :
       IF ~parsed THEN Fail(ErrJson) /\ UNCHANGED trace
       ELSE /\ result' = Ok(1)
            /\ trace' = Append(trace, "DONE")
            /\ pc' = RegisterNextPc(pc)
  /\ UNCHANGED <<argVars, chainVars, loc, net>>

\* ------------------------------------------- FreedomTool: verify and submit
\* the proposals the flows are run with
FlowProposals ==
  { Proposal(1, 1, 1, Criteria({}, 0, MRZ_ZERO_DATE, MRZ_ZERO_DATE, MRZ_ZERO_DATE, MaxTime, 1)),
    Proposal(1, MaxTime, 0,
             Criteria({AsciiBigInt(UKR)}, CHAR_M, MRZ_ZERO_DATE, MRZ_ZERO_DATE, MRZ_ZERO_DATE,
                      MaxTime, 1)),
    Proposal(1, 0, 0,
             Criteria({AsciiBigInt(UKR)}, 0, MRZ_ZERO_DATE, AsciiBigInt(DateStr(1)),
                      AsciiBigInt(DateStr(MaxDate)), 1, 0)) }

\* the circuit fields of the query proof
QueryFields ==
  {"event_id", "event_data", "id_state_root", "selector", "current_date",
   "timestamp_lowerbound", "timestamp_upperbound", "identity_count_lowerbound",
   "identity_count_upperbound", "birth_date_lowerbound", "birth_date_upperbound",
   "expiration_date_lowerbound", "expiration_date_upperbound", "citizenship_mask",
   "sk_identity", "pk_passport_hash", "dg1", "siblings", "timestamp", "identity_counter"}

\* JSON.stringify(inputs): a field whose value is undefined is left out
QueryInputs(passportInfo, smtProof) ==
  [set |-> TRUE,
   fields |-> (QueryFields \ {"id_state_root", "siblings", "timestamp", "identity_counter"})
                \cup (IF smtProof.set THEN {"id_state_root", "siblings"} ELSE {})
                \cup (IF passportInfo.set THEN {"timestamp", "identity_counter"} ELSE {}),
   id_state_root |-> smtProof.root,
   existence |-> smtProof.existence]

\* a generateQueryProof that does not read the passport info of the registry
VoteNextPcWithoutInfo(o, step) ==
  CASE step = "verifyTiming" -> "validateIdentity"
    [] step = "validateIdentity" -> "getProposalEventId"
    [] step = "getProposalEventId" -> "getNullifierProof"
    [] step = "getNullifierProof" -> IF o = "submit" THEN "getPassportInfo" ELSE "done"
    [] step = "getPassportInfo" -> "buildQueryProofParams"
    [] step = "buildQueryProofParams" -> "downloadCircuit"
    [] step = "downloadCircuit" -> "getSMTProof"
    [] step = "readActiveIdentity" -> "getSMTProof"
    [] step = "getSMTProof" -> "prove"
    [] step = "prove" -> IF o = "submit" THEN "buildProposalCallData" ELSE "done"
    [] step = "buildProposalCallData" -> "sendProposalRequest"
    [] step = "sendProposalRequest" -> "returnVote"
    [] OTHER -> "done"

\* verify, isAlreadyVoted, generateQueryProof and submitProposal / submitVote:
\* the statement that follows each awaited step of the method o
VoteNextPc(o, step) ==
  CASE step = "verifyTiming" -> "validateIdentity"
    [] step = "validateIdentity" -> "getProposalEventId"
    [] step = "getProposalEventId" -> "getNullifierProof"
    [] step = "getNullifierProof" -> IF o = "submit" THEN "getPassportInfo" ELSE "done"
    [] step = "getPassportInfo" -> "buildQueryProofParams"
    [] step = "buildQueryProofParams" -> "downloadCircuit"
    [] step = "downloadCircuit" -> "readActiveIdentity"
    [] step = "readActiveIdentity" -> "getSMTProof"
    [] step = "getSMTProof" -> "prove"
    [] step = "prove" -> IF o = "submit" THEN "buildProposalCallData" ELSE "done"
    [] step = "buildProposalCallData" -> "sendProposalRequest"
    [] step = "sendProposalRequest" -> "returnVote"
    [] OTHER -> "done"

\* a submitProposal that does not verify eligibility
SubmitFirstPcUnverified == "getPassportInfo"

\* the first statement of submitProposal / submitVote: await this.verify(...)
SubmitFirstPc == "verifyTiming"

\* the step was the last of the public method
Returns(o, step) == VoteNextPc(o, step) = "done"

CallVerify(proposals, passports) ==
  /\ Idle
  /\ \E rev \in {"FreedomTool", "Freedomtool"}, pr \in proposals, p \in passports :
       /\ revision' = rev
       /\ proposal' = pr
       /\ passport' = p
  /\ op' = "verify"
  /\ pc' = "verifyTiming"
  /\ UNCHANGED <<sharedVars, chainVars, loc, trace, net, result>>

CallSubmit ==
  /\ Idle
  /\ \E rev \in {"FreedomTool", "Freedomtool"}, pr \in FlowProposals, p \in FlowPassports :
       /\ revision' = rev
       /\ proposal' = pr
       /\ passport' = p
  /\ op' = "submit"
  /\ pc' = SubmitFirstPc
  /\ UNCHANGED <<sharedVars, chainVars, loc, trace, net, result>>

CallIsAlreadyVoted ==
  /\ Idle
  /\ \E pr \in FlowProposals : proposal' = pr
  /\ revision' = "FreedomTool"
  /\ op' = "isAlreadyVoted"
  /\ pc' = "getProposalEventId"
  /\ UNCHANGED <<sharedVars, passport, chainVars, loc, trace, net, result>>

CallGenerateQueryProof ==
  /\ Idle
  /\ \E p \in FlowPassports : passport' = p
  /\ revision' = "Rarime"
  /\ op' = "generateQueryProof"
  /\ pc' = "downloadCircuit"
  /\ UNCHANGED <<sharedVars, proposal, chainVars, loc, trace, net, result>>

\* verify / validate: the timing window against the wall clock
VerifyTiming ==
  /\ pc = "verifyTiming"
  /\ \E now \in 0..MaxTime :
       /\ loc' = [loc EXCEPT !.nowTimestamp = now]
       /\ IF timingCheck(now, proposal) # NoError
          THEN Fail(timingCheck(now, proposal))
          ELSE pc' = VoteNextPc(op, pc) /\ UNCHANGED result
  /\ UNCHANGED <<argVars, chainVars, trace, net>>

\* rarime.validateIdentity / rarime.validate
ValidateIdentity ==
  /\ pc = "validateIdentity"
  /\ net' = IF getPassportKey(passport).ok THEN Append(net, "getPassportInfo") ELSE net
  /\ \E rpcOk \in BOOLEAN :
       IF ~getPassportKey(passport).ok
       THEN Fail(getPassportKey(passport).err) /\ UNCHANGED loc
       ELSE IF ~rpcOk THEN Fail(ErrRpc) /\ UNCHANGED loc
       ELSE LET err == validateIdentity(ReadPassportInfo, proposal.criteria, passport.mrz,
                                        revision)
            IN  /\ loc' = [loc EXCEPT !.passportInfo = ReadPassportInfo]
                /\ IF err # NoError THEN Fail(err)
                   ELSE pc' = VoteNextPc(op, pc) /\ UNCHANGED result
  /\ UNCHANGED <<argVars, chainVars, trace>>

\* isAlreadyVoted: the event id of the proposal
GetProposalEventId ==
  /\ pc = "getProposalEventId"
  /\ net' = Append(net, "getProposalEventId")
  /\ \E rpcOk \in BOOLEAN :
       IF ~rpcOk THEN Fail(ErrRpc) /\ UNCHANGED loc
       ELSE /\ loc' = [loc EXCEPT !.eventId = EventIdOf(proposal.id)]
            /\ pc' = VoteNextPc(op, pc)
            /\ UNCHANGED result
  /\ UNCHANGED <<argVars, chainVars, trace>>

\* PoseidonSMT.getProof(nullifier) of the proposal's tree, as ethers returns it:
\* root, siblings, existence
ReadNullifierProof(nullifier) ==
  <<Cardinality(votingSmt), <<>>, nullifier \in votingSmt>>

\* an isAlreadyVoted that never reports a vote
AlreadyVotedIgnored(smtProof) == FALSE

\* isAlreadyVoted: return smtProof[2], the third member of the proof
AlreadyVotedOf(smtProof) == smtProof[3]

\* isAlreadyVoted: the SMT proof of the caller's nullifier, and the end of verify
GetNullifierProof ==
  /\ pc = "getNullifierProof"
  /\ net' = Append(net, "getProof nullifier")
  /\ \E rpcOk \in BOOLEAN :
       IF ~rpcOk THEN Fail(ErrRpc) /\ UNCHANGED <<loc, trace>>
       ELSE LET nullifier == EventNullifierOf(userPrivateKey.val, loc.eventId)
                existence == AlreadyVotedOf(ReadNullifierProof(nullifier))
            IN  /\ loc' = [loc EXCEPT !.alreadyVoted = existence, !.voteRead = TRUE,
                                      !.nullifier = nullifier]
                /\ IF op = "isAlreadyVoted"
                   THEN /\ result' = Ok(IF existence THEN 1 ELSE 0)
                        /\ pc' = VoteNextPc(op, pc)
                        /\ UNCHANGED trace
                   ELSE IF existence THEN Fail(ErrAlreadyVoted) /\ UNCHANGED trace
                   ELSE /\ trace' = Append(trace, "VERIFY")
                        /\ pc' = VoteNextPc(op, pc)
                        /\ result' = IF Returns(op, pc) THEN Ok(0) ELSE result
  /\ UNCHANGED <<argVars, chainVars>>

\* submitProposal: rarime.getPassportInfo
GetPassportInfo ==
  /\ pc = "getPassportInfo"
  /\ net' = IF getPassportKey(passport).ok THEN Append(net, "getPassportInfo") ELSE net
  /\ \E rpcOk \in BOOLEAN :
       IF ~getPassportKey(passport).ok
       THEN Fail(getPassportKey(passport).err) /\ UNCHANGED <<loc, trace>>
       ELSE IF ~rpcOk THEN Fail(ErrRpc) /\ UNCHANGED <<loc, trace>>
       ELSE /\ loc' = [loc EXCEPT !.passportInfo = ReadPassportInfo]
            /\ trace' = Append(trace, "PASSPORT_INFO")
            /\ pc' = VoteNextPc(op, pc)
            /\ UNCHANGED result
  /\ UNCHANGED <<argVars, chainVars>>

\* buildQueryProofParams: the event id is read again
BuildQueryProofParams ==
  /\ pc = "buildQueryProofParams"
  /\ net' = Append(net, "getProposalEventId")
  /\ \E rpcOk \in BOOLEAN :
       IF ~rpcOk THEN Fail(ErrRpc) /\ UNCHANGED <<loc, trace>>
       ELSE /\ loc' = [loc EXCEPT !.eventId = EventIdOf(proposal.id)]
            /\ trace' = Append(trace, "QUERY_PARAMS")
            /\ pc' = VoteNextPc(op, pc)
            /\ UNCHANGED result
  /\ UNCHANGED <<argVars, chainVars>>

\* generateQueryProof: the trusted setup and the bytecode
DownloadCircuit ==
  /\ pc = "downloadCircuit"
  /\ \E downloaded \in BOOLEAN :
       IF ~downloaded THEN Fail(ErrDownload)
       ELSE pc' = VoteNextPc(op, pc) /\ UNCHANGED result
  /\ UNCHANGED <<argVars, chainVars, loc, trace, net>>

\* a generateQueryProof without the comparison of the profile key
ProfileKeyMismatchUnchecked(profileKey, recorded) == FALSE

\* generateQueryProof: profileKey !== passportInfo[0].activeIdentity
ProfileKeyMismatch(profileKey, recorded) == profileKey # recorded

\* generateQueryProof: the registry's active identity against the profile key
ReadActiveIdentity ==
  /\ pc = "readActiveIdentity"
  /\ net' = IF getPassportKey(passport).ok THEN Append(net, "getPassportInfo") ELSE net
  /\ \E rpcOk \in BOOLEAN :
       IF ~getPassportKey(passport).ok
       THEN Fail(getPassportKey(passport).err) /\ UNCHANGED loc
       ELSE IF ~rpcOk THEN Fail(ErrRpc) /\ UNCHANGED loc
       ELSE /\ loc' = [loc EXCEPT !.queryInfo = ReadPassportInfo]
            /\ IF ProfileKeyMismatch(Prefix0x(getProfileKey(userPrivateKey)),
                                     ReadPassportInfo.activeIdentity)
               THEN Fail(ErrMismatch)
               ELSE pc' = VoteNextPc(op, pc) /\ UNCHANGED result
  /\ UNCHANGED <<argVars, chainVars, trace>>

\* generateQueryProof: getSMTProof
GetSMTProof ==
  /\ pc = "getSMTProof"
  /\ net' = Append(net, "getProof identity")
  /\ \E rpcOk \in BOOLEAN :
       IF ~rpcOk THEN Fail(ErrRpc) /\ UNCHANGED loc
       ELSE /\ loc' = [loc EXCEPT !.smtProof = ReadSmtProof]
            /\ pc' = VoteNextPc(op, pc)
            /\ UNCHANGED result
  /\ UNCHANGED <<argVars, chainVars, trace>>

\* generateQueryProof: circuit.prove(JSON.stringify(inputs), byteCode)
Prove ==
  /\ pc = "prove"
  /\ net' = Append(net, "provePlonk")
  /\ \E out \in ProverOutputs :
       /\ loc' = [loc EXCEPT !.inputs = QueryInputs(loc.queryInfo, loc.smtProof),
                             !.proof = out]
       /\ IF ProofMissing(out) THEN Fail(ErrProofEmpty) /\ UNCHANGED trace
          ELSE /\ trace' = Append(trace, "QUERY_PROOF")
               /\ pc' = VoteNextPc(op, pc)
               /\ result' = IF Returns(op, pc) THEN Ok(0) ELSE result
  /\ UNCHANGED <<argVars, chainVars>>

\* buildProposalCallData / buildVoteCallData: the root of the tree is read again
BuildProposalCallData ==
  /\ pc = "buildProposalCallData"
  /\ net' = Append(net, "getProof identity")
  /\ \E rpcOk \in BOOLEAN :
       IF ~rpcOk THEN Fail(ErrRpc) /\ UNCHANGED <<loc, trace>>
       ELSE /\ loc' = [loc EXCEPT !.callRoot = ReadSmtProof.root]
            /\ trace' = Append(trace, "CALLDATA")
            /\ pc' = VoteNextPc(op, pc)
            /\ UNCHANGED result
  /\ UNCHANGED <<argVars, chainVars>>

\* sendProposalRequest / sendRelayerVote: the POST to the voting relayer
SendProposalRequest ==
  /\ pc = "sendProposalRequest"
  /\ net' = Append(net, "POST vote")
  /\ \E status \in HttpStatuses :
       /\ loc' = [loc EXCEPT !.httpStatus = status]
       /\ IF ~IsOk(status) THEN Fail(ErrHttp) /\ UNCHANGED trace
          ELSE /\ trace' = Append(trace, "SUBMIT_TX")
               /\ pc' = VoteNextPc(op, pc)
               /\ UNCHANGED result
  /\ UNCHANGED <<argVars, chainVars>>

\* the parse of the relayer's answer and the return of its identifier
ReturnVote ==
  /\ pc = "returnVote"
  /\ \E parsed \in BOOLEAN :
       IF ~parsed THEN Fail(ErrJson) /\ UNCHANGED trace
       ELSE /\ result' = Ok(1)
            /\ trace' = Append(trace, "DONE")
            /\ pc' = VoteNextPc(op, pc)
  /\ UNCHANGED <<argVars, chainVars, loc, net>>

\* ------------------------------------------------------- specification
\* ------------------------------------------ concurrent proof generations
\* Two proof generations of one application (generateLiteRegisterProof or
\* generateQueryProof called without awaiting the other); each await of
\* downloadTrustedSetup and downloadByteCode is a step the other can precede.
Jobs == {1, 2}
JobCircuits == {"query_identity", "register_light_256"}

\* NoirCircuitParams.TrustedSetupFileName
TrustedSetupFile == <<"noir", "ultraPlonkTrustedSetup", ".dat">>
\* `${FileSystem.documentDirectory}/noir/${this.name}-bytecode.json`
ByteCodeFile(name) == <<"noir", name, "-bytecode.json">>
Artifacts == {TrustedSetupFile} \cup {ByteCodeFile(n) : n \in JobCircuits}

ErrSetupDownload == "Failed to download trusted setup"
ErrByteCodeDownload == "Failed to download bytecode for noir circuit"

NoJob == [pc |-> "idle", circuit |-> "", startFiles |-> {}, requests |-> <<>>, result |-> ""]

JobUnchanged ==
  UNCHANGED <<userPrivateKey, chainVars, op, revision, pc, passport, proposal, loc,
              trace, net, result>>

JobStep(j, next) == jobs' = [jobs EXCEPT ![j].pc = next]

\* generateLiteRegisterProof / generateQueryProof: NoirCircuitParams.fromName
StartProofGeneration(j) ==
  /\ jobs[j].pc = "idle"
  /\ \E name \in JobCircuits :
       jobs' = [jobs EXCEPT ![j] = [NoJob EXCEPT !.pc = "getTrustedSetupUri",
                                                 !.circuit = name,
                                                 !.startFiles = fileSystem]]
  /\ UNCHANGED <<fileSystem, downloads>>
  /\ JobUnchanged

\* getTrustedSetupUri / getByteCodeUri: FileSystem.getInfoAsync(file).exists
GetUri(file) == file \in fileSystem

\* if (!(await getTrustedSetupUri())) / if (!(await getByteCodeUri(fileName)))
CheckCached(j, file, download, next) ==
  /\ JobStep(j, IF GetUri(file) THEN next ELSE download)
  /\ UNCHANGED <<fileSystem, downloads>>
  /\ JobUnchanged

\* await downloadResumable.downloadAsync(): the file is fetched and written,
\* or the download ends without a file
DownloadAsync(j, file, next) ==
  /\ jobs' = [jobs EXCEPT ![j].pc = next, ![j].requests = Append(@, file)]
  /\ \E written \in BOOLEAN :
       IF written
       THEN /\ fileSystem' = fileSystem \cup {file}
            /\ downloads' = [downloads EXCEPT ![file] = @ + 1]
       ELSE UNCHANGED <<fileSystem, downloads>>
  /\ JobUnchanged

\* const uri = await getUri(); if (!uri) throw new Error("Failed to download ...")
RequireUri(j, file, err, next) ==
  /\ IF GetUri(file) THEN JobStep(j, next)
     ELSE jobs' = [jobs EXCEPT ![j].pc = "done", ![j].result = err]
  /\ UNCHANGED <<fileSystem, downloads>>
  /\ JobUnchanged

GetTrustedSetupUri(j) ==
  /\ jobs[j].pc = "getTrustedSetupUri"
  /\ CheckCached(j, TrustedSetupFile, "downloadTrustedSetup", "trustedSetupUri")
DownloadTrustedSetup(j) ==
  /\ jobs[j].pc = "downloadTrustedSetup"
  /\ DownloadAsync(j, TrustedSetupFile, "trustedSetupUri")
TrustedSetupUri(j) ==
  /\ jobs[j].pc = "trustedSetupUri"
  /\ RequireUri(j, TrustedSetupFile, ErrSetupDownload, "getByteCodeUri")
GetByteCodeUri(j) ==
  /\ jobs[j].pc = "getByteCodeUri"
  /\ CheckCached(j, ByteCodeFile(jobs[j].circuit), "downloadByteCode", "byteCodeUri")
DownloadByteCode(j) ==
  /\ jobs[j].pc = "downloadByteCode"
  /\ DownloadAsync(j, ByteCodeFile(jobs[j].circuit), "byteCodeUri")
ByteCodeUri(j) ==
  /\ jobs[j].pc = "byteCodeUri"
  /\ RequireUri(j, ByteCodeFile(jobs[j].circuit), ErrByteCodeDownload, "proveJob")

\* circuit.prove(inputs, byteCode) with both files
ProveJob(j) ==
  /\ jobs[j].pc = "proveJob"
  /\ jobs' = [jobs EXCEPT ![j].pc = "done", ![j].result = "proof"]
  /\ UNCHANGED <<fileSystem, downloads>>
  /\ JobUnchanged

\* the proof generation returned or threw
FinishJob(j) ==
  /\ jobs[j].pc = "done"
  /\ jobs' = [jobs EXCEPT ![j] = NoJob]
  /\ UNCHANGED <<fileSystem, downloads>>
  /\ JobUnchanged

NextConcurrent ==
  \/ \E j \in Jobs : StartProofGeneration(j)
  \/ \E j \in Jobs : GetTrustedSetupUri(j)
  \/ \E j \in Jobs : DownloadTrustedSetup(j)
  \/ \E j \in Jobs : TrustedSetupUri(j)
  \/ \E j \in Jobs : GetByteCodeUri(j)
  \/ \E j \in Jobs : DownloadByteCode(j)
  \/ \E j \in Jobs : ByteCodeUri(j)
  \/ \E j \in Jobs : ProveJob(j)
  \/ \E j \in Jobs : FinishJob(j)

Init ==
  /\ fileSystem = {}
  /\ downloads = [file \in Artifacts |-> 0]
  /\ jobs = [j \in Jobs |-> NoJob]
  /\ \E pfx \in BOOLEAN :
       userPrivateKey = RarimeConstructor(HexStr(pfx, PrivateKeyLength, CallerKey)).key
  /\ activeIdentity = 0
  /\ identityReissueCounter = 0
  /\ issueTimestamp = 0
  /\ regTree = {}
  /\ treeRoot = 0
  /\ votingSmt = {}
  /\ op = "idle"
  /\ revision = ""
  /\ pc = "idle"
  /\ passport = NoPassport
  /\ proposal = NoProposal
  /\ loc = LocInit
  /\ trace = <<>>
  /\ net = <<>>
  /\ result = NoResult

Next ==
  \/ \E sk \in SK : ChainRegister(sk)
  \/ ChainRevoke
  \/ \E sk \in SK : ChainReissue(sk)
  \/ ChainTreeUpdate
  \/ \E sk \in SK : ChainVote(sk)
  \/ CallRegisterIdentity
  \/ CallGetDocumentStatus
  \/ GetDocumentStatus
  \/ GenerateLiteRegisterProof
  \/ VerifySodRequest
  \/ BuildLiteRegisterCalldata
  \/ SendRegisterLiteTransaction
  \/ ReturnRegister
  \/ CallVerify(FlowProposals, FlowPassports)
  \/ CallSubmit
  \/ CallIsAlreadyVoted
  \/ CallGenerateQueryProof
  \/ VerifyTiming
  \/ ValidateIdentity
  \/ GetProposalEventId
  \/ GetNullifierProof
  \/ GetPassportInfo
  \/ BuildQueryProofParams
  \/ DownloadCircuit
  \/ ReadActiveIdentity
  \/ GetSMTProof
  \/ Prove
  \/ BuildProposalCallData
  \/ SendProposalRequest
  \/ ReturnVote
  \/ Finish

Spec == Init /\ [][Next]_vars

\* ------------------------------------------------- NoirCircuitParams.prove
\* const pubSignalDataLength = 64; // hex
pubSignalDataLength == 64
QueryPubSignals == 24
RegisterPubSignals == 3

\* supportedNoirCircuits
supportedNoirCircuits ==
  {[name |-> "query_identity", pub_signals_count |-> QueryPubSignals]}
  \cup {[name |-> n, pub_signals_count |-> RegisterPubSignals] :
          n \in {"register_light_160", "register_light_224", "register_light_256",
                 "register_light_384", "register_light_512"}}

ErrNoTrustedSetup == "Trusted setup not found. Please download it first."

\* String.prototype.substring(start, end) on a string of hex digits
Substring(str, start, end) ==
  SubSeq(str, (IF start > Len(str) THEN Len(str) ELSE start) + 1,
              IF end > Len(str) THEN Len(str) ELSE end)

\* a prove that returns the whole prover string as the proof
proveKeepingSignals(circuit, hasTrustedSetup, proofString) ==
  IF ~hasTrustedSetup THEN [ok |-> FALSE, err |-> ErrNoTrustedSetup, pub_signals |-> <<>>, proof |-> <<>>]
  ELSE IF proofString = <<>>
  THEN [ok |-> FALSE, err |-> ErrProofEmpty, pub_signals |-> <<>>, proof |-> <<>>]
  ELSE [ok |-> TRUE, err |-> "",
        pub_signals |-> [i \in 1..circuit.pub_signals_count |->
                           Substring(proofString, (i - 1) * pubSignalDataLength,
                                     (i - 1) * pubSignalDataLength + pubSignalDataLength)],
        proof |-> proofString]

\* NoirCircuitParams.prove, proofString being the answer of NoirModule.provePlonk
prove(circuit, hasTrustedSetup, proofString) ==
  IF ~hasTrustedSetup THEN [ok |-> FALSE, err |-> ErrNoTrustedSetup, pub_signals |-> <<>>, proof |-> <<>>]
  ELSE IF proofString = <<>>
  THEN [ok |-> FALSE, err |-> ErrProofEmpty, pub_signals |-> <<>>, proof |-> <<>>]
  ELSE [ok |-> TRUE, err |-> "",
        pub_signals |-> [i \in 1..circuit.pub_signals_count |->
                           Substring(proofString, (i - 1) * pubSignalDataLength,
                                     (i - 1) * pubSignalDataLength + pubSignalDataLength)],
        proof |-> Substring(proofString, pubSignalDataLength * circuit.pub_signals_count,
                            Len(proofString))]

\* ------------------------------------------------- the functions on their own
\* Each pure function of the SDK is applied to inputs drawn from bounded
\* sets; loc holds the arguments and the value returned.
MaxModulusBits == 12
Moduli == 0..(Pow2(MaxModulusBits) - 1)
EcByteSamples == {0, EC_UNCOMPRESSED, 255}
EcKeyInputs ==
  UNION {[1..n -> EcByteSamples] : n \in (EcKeyLength - 1)..(EcKeyLength + 1)}
DigestSamples == {<<128, 1>>, <<0, 0>>, <<255, 255>>}
KeyPassports ==
  { WithKey(Passport(Mrz(UKR, CHAR_M, 1, 1), ID_SHA_256, sigAlgo), dg15, digest) :
      sigAlgo \in {SHA_256_WITH_RSA_ENCRYPTION, ID_RSASSA_PSS},
      dg15 \in {NoDg15, OtherDg15}
               \cup {RsaDg15(m) : m \in {3, Pow2(requiredBits) - 1, Pow2(requiredBits + 1) - 1}}
               \cup {EcDg15(spk) : spk \in {<<4, 0, 1, 0, 2>>, <<0, 4, 0, 1, 0, 2>>,
                                            <<3, 0, 1, 0, 2>>, <<4, 0, 1>>}},
      digest \in DigestSamples }

Bytes == 0..255
ByteSamples == {0, 1, 15, 16, 128, 240, 255}
DigestInputs == {<<first, second>> : first \in Bytes, second \in ByteSamples}

Frame(args, ret) == [args |-> args, ret |-> ret]

Apply(fn, args, ret) ==
  /\ op' = fn
  /\ pc' = "done"
  /\ loc' = Frame(args, ret)
  /\ UNCHANGED <<sharedVars, chainVars, trace, net, result>>

ApplyExtractRsaPassportKey ==
  Idle /\ \E modulus \in Moduli :
    /\ Apply("extractRsaPassportKey", <<modulus>>, extractRsaPassportKey(modulus))
    /\ UNCHANGED <<revision, proposal, passport>>

ApplyExtractEcdsaPassportKey ==
  Idle /\ \E keyBytes \in EcKeyInputs :
    /\ Apply("extractEcdsaPassportKey", <<keyBytes>>, extractEcdsaPassportKey(keyBytes))
    /\ UNCHANGED <<revision, proposal, passport>>

ApplyGetPassportKey ==
  Idle /\ \E p \in KeyPassports :
    /\ Apply("getPassportKey", <<>>, getPassportKey(p))
    /\ passport' = p
    /\ UNCHANGED <<revision, proposal>>

ApplyGetPassportHash ==
  Idle /\ \E digest \in DigestInputs, sigAlgo \in {SHA_256_WITH_RSA_ENCRYPTION, ID_RSASSA_PSS} :
    LET p == WithKey(Passport(Mrz(UKR, CHAR_M, 1, 1), ID_SHA_256, sigAlgo), NoDg15, digest)
    IN  /\ Apply("getPassportHash", <<>>, getPassportHash(p))
        /\ passport' = p
        /\ UNCHANGED <<revision, proposal>>

\* the criteria and MRZ values the passport checks are applied to: every bound
\* is an MRZ date in the encoding of ProposalCriteria, every MRZ date a string
\* of digits or of filler characters
DateBound(d) == AsciiBigInt(DateStr(d))
FillerDate == [i \in 1..DateLen |-> CHAR_FILLER]
MrzDates == {DateStr(d) : d \in 0..MaxDate} \cup {FillerDate}
CheckCriteria ==
  { Criteria(whitelist, sex, DateBound(lo), DateBound(hi), DateBound(exp), 0, 0) :
      whitelist \in {{}, {AsciiBigInt(UKR)}}, sex \in {0, CHAR_M, CHAR_F},
      lo \in 0..MaxDate, hi \in 0..MaxDate, exp \in {0, MaxDate} }
CheckMrz ==
  { [issuingCountry |-> country, sex |-> sex, birthDate |-> birth, expiryDate |-> expiry] :
      country \in {UKR, GEO}, sex \in {CHAR_M, CHAR_F, CHAR_FILLER},
      birth \in MrzDates, expiry \in {DateStr(0), DateStr(MaxDate), FillerDate} }

\* passport.verifyPassport(proposalInfo) / passport.validate(proposalData)
ApplyVerifyPassport ==
  Idle /\ \E criteria \in CheckCriteria, mrz \in CheckMrz, rev \in {"FreedomTool", "Freedomtool"} :
    /\ Apply("verifyPassport", <<>>,
             IF rev = "FreedomTool" THEN verifyPassport(criteria, mrz)
             ELSE validatePassport(criteria, mrz))
    /\ revision' = rev
    /\ proposal' = Proposal(0, 0, 0, criteria)
    /\ passport' = Passport(mrz, ID_SHA_256, SHA_256_WITH_RSA_ENCRYPTION)

\* the comparison of the clock with the window in verify / validate
ApplyTimingCheck ==
  Idle /\ \E now \in 0..(2 * MaxTime + 1), start \in 0..MaxTime, duration \in 0..MaxTime :
    /\ Apply("timingCheck", <<now>>, timingCheck(now, Proposal(0, start, duration, NoProposal.criteria)))
    /\ proposal' = Proposal(0, start, duration, NoProposal.criteria)
    /\ UNCHANGED <<revision, passport>>

\* the strings of hex digits the prover answers with: empty, shorter than the
\* public signals, exactly as long, and longer
ProofLengths ==
  {0, 1, pubSignalDataLength, pubSignalDataLength * RegisterPubSignals - 1,
   pubSignalDataLength * RegisterPubSignals, pubSignalDataLength * RegisterPubSignals + 8,
   pubSignalDataLength * QueryPubSignals - 1, pubSignalDataLength * QueryPubSignals,
   pubSignalDataLength * QueryPubSignals + 8}
ProofString(n, seed) == [i \in 1..n |-> (i + seed + (i \div pubSignalDataLength)) % 16]
ProofStrings == {ProofString(n, seed) : n \in ProofLengths, seed \in {0, 5}}

ApplyProve ==
  Idle /\ \E circuit \in supportedNoirCircuits, hasTrustedSetup \in BOOLEAN,
     proofString \in ProofStrings :
    /\ Apply("prove", <<circuit, hasTrustedSetup, proofString>>,
             prove(circuit, hasTrustedSetup, proofString))
    /\ UNCHANGED <<revision, proposal, passport>>

\* the OIDs the lookups are applied to: every OID of the two tables, and
\* strings of neither: an OID of another arc, the empty string, a proper
\* prefix of the RSA entries and an entry followed by a blank
OidSamples ==
  {ID_SHA_1, SHA_1_WITH_RSA_ENCRYPTION, ID_SHA_224, SHA_224_WITH_RSA_ENCRYPTION,
   ECDSA_WITH_SHA_224, ID_SHA_256, SHA_256_WITH_RSA_ENCRYPTION, ECDSA_WITH_SHA_256,
   ID_SHA_384, SHA_384_WITH_RSA_ENCRYPTION, ECDSA_WITH_SHA_384, ID_SHA_512,
   SHA_512_WITH_RSA_ENCRYPTION, ECDSA_WITH_SHA_512, RSA_ENCRYPTION, ID_RSASSA_PSS,
   UNKNOWN_OID, "", "1.2.840.113549.1.1", "2.16.840.1.101.3.4.2.1 "}

ApplyHashAlgorithmFromOid ==
  Idle /\ \E oid \in OidSamples :
    /\ Apply("HashAlgorithm.fromOid", <<oid>>, HashAlgorithmFromOid(oid))
    /\ UNCHANGED <<revision, proposal, passport>>

ApplySignatureAlgorithmFromOID ==
  Idle /\ \E oid \in OidSamples :
    /\ Apply("SignatureAlgorithm.fromOID", <<oid>>, SignatureAlgorithmFromOID(oid))
    /\ UNCHANGED <<revision, proposal, passport>>

\* the strings the constructor is given as userPrivateKey: with or without
\* "0x", of 0 and 62..66 characters after the prefix, all of them hexadecimal
\* digits or not (hex = FALSE: a letter outside a-f, a blank, a second "0x")
KeyLengths == {0, PrivateKeyLength - 2, PrivateKeyLength - 1, PrivateKeyLength,
               PrivateKeyLength + 1, PrivateKeyLength + 2}
KeyStrings ==
  {[pfx |-> pfx, len |-> len, val |-> IF hex THEN sk ELSE SyntaxErrorValue, hex |-> hex] :
     pfx \in BOOLEAN, len \in KeyLengths, sk \in SK, hex \in BOOLEAN}

ApplyRarimeConstructor ==
  Idle /\ \E key \in KeyStrings :
    /\ Apply("Rarime.constructor", <<key>>, RarimeConstructor(key))
    /\ UNCHANGED <<revision, proposal, passport>>

\* ------------------------------------------------------------ vote masks
\* answer indices 0..MaxAnswer: ProposalQuestion.variants is a string[] of any
\* length, answers a number[]
MaxAnswer == 9
\* the width of the operands of the JavaScript << operator (32), scaled
IntBits == 8

\* a << b of JavaScript numbers: ToInt32(a) shifted by b mod the width, the
\* low bits of the product read as a signed integer of that width
ShiftLeft(a, b) ==
  LET low == (a * Pow2(b % IntBits)) % Pow2(IntBits)
  IN  IF low >= Pow2(IntBits - 1) THEN low - Pow2(IntBits) ELSE low

\* answers.map((v) => 1 << v), answers.map((v) => 1 << Number(v))
VoteMasks(answers) == [i \in 1..Len(answers) |-> ShiftLeft(1, answers[i])]

ErrUintRange == "value out-of-bounds"

\* AbiCoder.encode(["uint256[]"], [values]): the values, or the error of a
\* value that is no unsigned integer
AbiEncodeUints(values) ==
  IF \E i \in 1..Len(values) : values[i] < 0 THEN KeyError(ErrUintRange)
  ELSE KeyOk(values)

\* keccak256 of the encoding cut to 248 bits, an injective map of the values
Keccak248(encoded) == encoded

\* getEventData(votes): the hash of the encoded masks
getEventData(votes) ==
  LET encoded == AbiEncodeUints(VoteMasks(votes))
  IN  IF encoded.ok THEN KeyOk(Keccak248(encoded.key)) ELSE encoded

\* buildProposalCallData: the votes mask member of userDataEncoded
userDataEncoded(answers) == AbiEncodeUints(VoteMasks(answers))

ApplyEncodeVotes ==
  Idle /\ \E v \in 0..MaxAnswer :
    /\ Apply("encodeVotes", <<v>>,
             [masks |-> VoteMasks(<<v>>), eventData |-> getEventData(<<v>>),
              userData |-> userDataEncoded(<<v>>)])
    /\ UNCHANGED <<revision, proposal, passport>>

NextFunctions ==
  \/ ApplyExtractRsaPassportKey
  \/ ApplyExtractEcdsaPassportKey
  \/ ApplyGetPassportKey
  \/ ApplyGetPassportHash
  \/ ApplyVerifyPassport
  \/ ApplyTimingCheck
  \/ ApplyProve
  \/ ApplyHashAlgorithmFromOid
  \/ ApplySignatureAlgorithmFromOID
  \/ ApplyRarimeConstructor
  \/ ApplyEncodeVotes
  \/ Finish

SpecFunctions == Init /\ [][NextFunctions]_vars

SpecConcurrent == Init /\ [][NextConcurrent]_vars

\* ---------------------------------------------------------------- claims
IsPrefix(s, t) == Len(s) <= Len(t) /\ \A i \in 1..Len(s) : s[i] = t[i]
Occurrences(s, x) == Cardinality({i \in 1..Len(s) : s[i] = x})
InSeq(s, x) == \E i \in 1..Len(s) : s[i] = x
LastOf(s) == s[Len(s)]

RegistrationOrder ==
  <<"CHECK_STATUS", "BUILD_PROOF", "VERIFY_SOD", "BUILD_CALLDATA", "SUBMIT_TX", "DONE">>
RegistrationCalls ==
  <<"getPassportInfo", "provePlonk", "POST registerid", "POST register">>

\* C1: in every execution of registerIdentity the steps complete only in the
\* order status check, proof generation, POST to the verification relayer,
\* call-data construction, POST to the transaction relayer, return; a step
\* starts only after the previous one completed without error, none is
\* skipped or repeated, and the identifier is returned only after all of them.
C1_RegisterStepOrder ==
  op = "registerIdentity" =>
    /\ IsPrefix(trace, RegistrationOrder)
    /\ IsPrefix(net, RegistrationCalls)
    /\ InSeq(net, "provePlonk") => Len(trace) >= 1
    /\ InSeq(net, "POST registerid") => Len(trace) >= 2
    /\ InSeq(net, "POST register") => Len(trace) >= 4
    /\ result.kind = "ok" <=> trace = RegistrationOrder
    /\ result.kind = "ok" => net = RegistrationCalls

C1_Witness ==
  /\ op = "registerIdentity"
  /\ result.kind = "ok"
  /\ trace = RegistrationOrder
  /\ net = RegistrationCalls

\* C2: whenever getDocumentStatus returns REGISTERED_WITH_OTHER_PK,
\* registerIdentity fails with an error before any proof is generated and
\* before any request is sent to a relayer.
C2_OtherPkRejected ==
  (op = "registerIdentity" /\ loc.passportStatus = RegisteredWithOtherPk) =>
    /\ pc = "done"
    /\ result.kind = "error"
    /\ ~InSeq(net, "provePlonk")
    /\ ~InSeq(net, "POST registerid")
    /\ ~InSeq(net, "POST register")

\* C3: getDocumentStatus returns NOT_REGISTERED exactly when the active
\* identity is the zero value, REGISTERED_WITH_THIS_PK exactly when it is the
\* identity registerIdentity submits for the caller's private key, and
\* REGISTERED_WITH_OTHER_PK exactly when it is another identity.
C3_StatusClassification ==
  loc.passportStatus # "" =>
    LET read == loc.passportInfo.activeIdentity
        own == Prefix0x(getProfileKey(userPrivateKey))
    IN  /\ loc.passportStatus = NotRegistered <=> read = Bytes32Hex(0)
        /\ loc.passportStatus = RegisteredWithThisPk <=> read = own
        /\ loc.passportStatus = RegisteredWithOtherPk <=> read \notin {Bytes32Hex(0), own}

\* C4: a non-2xx answer of the verification relayer or of the transaction
\* relayer makes registerIdentity fail, and that request is the last external
\* call of the invocation: it is not retried and no later step runs.
C4_Non2xxIsFatal ==
  (op = "registerIdentity" /\ loc.httpStatus # 0 /\ loc.httpStatus \notin 200..299) =>
    /\ pc = "done"
    /\ result \in (IF LastOf(net) = "POST register"
                   THEN {Error(ErrHttpBody), Error(ErrJson)} ELSE {Error(ErrHttp)})
    /\ LastOf(net) \in {"POST registerid", "POST register"}
    /\ Occurrences(net, LastOf(net)) = 1
    /\ LastOf(net) = "POST registerid" => ~InSeq(net, "POST register")
    /\ ~InSeq(trace, "DONE")

C4_Witness ==
  /\ op = "registerIdentity"
  /\ loc.httpStatus = 500
  /\ LastOf(net) = "POST register"
  /\ result = Error(ErrHttpBody)

VoteOrder ==
  <<"VERIFY", "PASSPORT_INFO", "QUERY_PARAMS", "QUERY_PROOF", "CALLDATA", "SUBMIT_TX", "DONE">>

\* C5: in submitProposal / submitVote no query proof is generated and nothing
\* is posted to the voting relayer unless the eligibility verification of the
\* same invocation completed without error; passport-info read, proof
\* parameters, query proof, call data and relayer POST complete in that order,
\* each after the previous one succeeded, and an identifier is returned only
\* when all of them completed.
C5_VoteGatedAndOrdered ==
  op = "submit" =>
    /\ IsPrefix(trace, VoteOrder)
    /\ InSeq(net, "provePlonk") => IsPrefix(SubSeq(VoteOrder, 1, 3), trace)
    /\ InSeq(net, "POST vote") => IsPrefix(SubSeq(VoteOrder, 1, 5), trace)
    /\ Occurrences(net, "provePlonk") <= 1
    /\ Occurrences(net, "POST vote") <= 1
    /\ result.kind = "ok" => trace = VoteOrder
    /\ result.kind = "error" => pc = "done" /\ ~InSeq(trace, "DONE")

C5_Witness ==
  /\ op = "submit"
  /\ result = Ok(1)
  /\ trace = VoteOrder
  /\ LastOf(net) = "POST vote"

\* the error the criteria of a proposal call for, taken in the order timing,
\* citizenship, sex, birth-date bounds, expiration bound, with every MRZ field
\* in the encoding of the criteria (the bytes of the field as an integer)
FirstViolatedCriterion(nowTimestamp, proposalInfo, mrz) ==
  LET c == proposalInfo.criteria
  IN  IF nowTimestamp < proposalInfo.startTimestamp THEN ErrNotStarted
      ELSE IF nowTimestamp > proposalInfo.startTimestamp + proposalInfo.duration THEN ErrEnded
      ELSE IF c.citizenshipWhitelist # {}
                /\ AsciiBigInt(mrz.issuingCountry) \notin c.citizenshipWhitelist THEN ErrCitizen
      ELSE IF c.sex # 0 /\ c.sex # mrz.sex THEN ErrSex
      ELSE IF c.birthDateLowerbound # MRZ_ZERO_DATE
                /\ c.birthDateLowerbound > AsciiBigInt(mrz.birthDate) THEN ErrBirthLower
      ELSE IF c.birthDateUpperbound # MRZ_ZERO_DATE
                /\ c.birthDateUpperbound < AsciiBigInt(mrz.birthDate) THEN ErrBirthUpper
      ELSE IF c.expirationDateLowerbound # MRZ_ZERO_DATE
                /\ c.expirationDateLowerbound > AsciiBigInt(mrz.expiryDate) THEN ErrExpiration
      ELSE NoError

\* the errors of verify that come from no criterion of the proposal
NotOfCriteria == {ErrRpc, ErrTimestamp, ErrIdentityCounter, ErrAlreadyVoted}

\* C6: eligibility verification evaluates timing, citizenship, sex, birth-date
\* bounds and expiration bound in that order and fails with the error of the
\* first criterion in that order that is violated; it passes the criteria only
\* when none is violated.
C6_FirstViolatedCriterionFails ==
  op = "verify" =>
    /\ (pc = "done" /\ result.kind = "error" /\ result.err \notin NotOfCriteria)
         => result.err = FirstViolatedCriterion(loc.nowTimestamp, proposal, passport.mrz)
    /\ pc \in {"getProposalEventId", "getNullifierProof"}
         => FirstViolatedCriterion(loc.nowTimestamp, proposal, passport.mrz) = NoError

\* C7: when startTimestamp is later than the current time, verify / validate
\* fails with the "not started" error and neither the proposal event id nor the
\* nullifier membership proof is read on chain in that invocation.
C7_NotStartedBeforeSmt ==
  (op \in {"verify", "submit"} /\ pc # "verifyTiming"
     /\ loc.nowTimestamp < proposal.startTimestamp) =>
    /\ pc = "done"
    /\ result = Error(ErrNotStarted)
    /\ ~InSeq(net, "getProposalEventId")
    /\ ~InSeq(net, "getProof nullifier")
    /\ net = <<>>

C7_Witness ==
  /\ op = "verify"
  /\ loc.nowTimestamp < proposal.startTimestamp
  /\ result = Error(ErrNotStarted)
  /\ proposal.criteria.citizenshipWhitelist # {}

\* C8: isAlreadyVoted returns true exactly when the proposal's SMT holds the
\* caller's event nullifier at the time of the read, and a verify whose read
\* finds it fails with the "already voted" error (and only then).
C8_AlreadyVotedIffExistence ==
  [][(pc = "getNullifierProof" /\ pc' # pc /\ result' # Error(ErrRpc)) =>
       LET voted == EventNullifierOf(userPrivateKey.val, EventIdOf(proposal.id)) \in votingSmt
       IN  IF op = "isAlreadyVoted"
           THEN result' = Ok(IF voted THEN 1 ELSE 0)
           ELSE voted <=> result' = Error(ErrAlreadyVoted)]_vars

C8_Witness ==
  /\ op = "verify"
  /\ result = Error(ErrAlreadyVoted)
  /\ EventNullifierOf(userPrivateKey.val, EventIdOf(proposal.id)) \in votingSmt

\* C9: in generateQueryProof, when the profile key of the caller's private key
\* differs from the active identity the registry records for the document, the
\* call fails with the mismatch error and the prover is not invoked; the prover
\* is invoked only when the two are equal, and equal values are no mismatch.
C9_MismatchStopsProver ==
  (op \in {"generateQueryProof", "submit"} /\ loc.queryInfo.set) =>
    LET differs == loc.queryInfo.activeIdentity.val # ProfileKeyValue(userPrivateKey.val)
    IN  /\ differs => /\ pc = "done"
                      /\ result = Error(ErrMismatch)
                      /\ ~InSeq(net, "provePlonk")
                      /\ ~InSeq(net, "getProof identity")
        /\ result = Error(ErrMismatch) => differs
        /\ InSeq(net, "provePlonk") => ~differs

C9_Witness ==
  /\ op = "generateQueryProof"
  /\ result = Error(ErrMismatch)
  /\ loc.queryInfo.activeIdentity.val \notin {0, REVOKED, ProfileKeyValue(userPrivateKey.val)}
  /\ ~InSeq(net, "provePlonk")

ProverOrRelayerFailures == {ErrDownload, ErrProofEmpty, ErrHttp, ErrHttpBody, ErrJson}
\* a document whose SOD algorithms the SDK's registries accept
SupportedDocument(p) ==
  /\ HashAlgorithmFromOid(p.dgHashAlgo) # Unsupported
  /\ SignatureAlgorithmFromOID(p.sigAlgo) # Unsupported

\* C11: for a fresh document (status NOT_REGISTERED) registerIdentity, once
\* the prover and every relayer request succeed, completes proof build,
\* relayer verification, call-data build and transaction submission and
\* returns a non-empty identifier: a run on a fresh document ends either with
\* the identifier after all steps or with a failure of the prover or of a
\* relayer request.
C11_FreshRegistrationCompletes ==
  (op = "registerIdentity" /\ pc = "done" /\ loc.passportStatus = NotRegistered
     /\ SupportedDocument(passport)) =>
    \/ result.kind = "ok" /\ result.id # 0 /\ trace = RegistrationOrder
    \/ result.kind = "error" /\ result.err \in ProverOrRelayerFailures

\* the function fn has returned ret for the arguments in loc.args
Applied(fn) == op = fn /\ pc = "done"

\* C12: a document with dataGroup15 gets its key from the active-authentication
\* key only (an EC key gives the hash of two coordinates, an RSA key the hash
\* of five chunks, a rejected key gives no key at all), a document without
\* dataGroup15 gets the hash of the one packed digest of its signed attributes.
AaKeyAccepted(dg15) ==
  \/ dg15.alg = "Rsa" /\ BitLen(dg15.modulus) >= requiredBits
  \/ dg15.alg = "Ecdsa" /\ Len(EcKeyBytes(dg15.spk)) = EcKeyLength
                        /\ EcKeyBytes(dg15.spk)[1] = EC_UNCOMPRESSED
C12_OneKeyPath ==
  Applied("getPassportKey") =>
    IF passport.dg15.present
    THEN /\ loc.ret.ok <=> AaKeyAccepted(passport.dg15)
         /\ loc.ret.ok => Len(loc.ret.key) = (IF passport.dg15.alg = "Rsa"
                                               THEN Len(chunkSizes) ELSE 2)
         /\ ~loc.ret.ok => loc.ret.key = <<>>
    ELSE /\ loc.ret.ok <=> HashAlgorithmFromOid(passport.sigAlgo) # Unsupported
         /\ loc.ret.ok => loc.ret.key = <<PackDigest(passport.digest)>>
C12_Witness ==
  /\ Applied("getPassportKey")
  /\ passport.dg15.present
  /\ ~AaKeyAccepted(passport.dg15)
  /\ HashAlgorithmFromOid(passport.sigAlgo) # Unsupported
  /\ ~loc.ret.ok

\* C13: for a modulus of at least requiredBits bits the five chunks, read as
\* limbs of widths 200, 200, 200, 200, 224 from the most significant to the
\* least significant (the reverse of the extraction order), sum to the top
\* requiredBits bits of the modulus.
LimbWidths == Reverse(chunkSizes)
LimbSum(chunks) ==
  LET F[i \in 0..Len(chunks)] ==
        IF i = 0 THEN 0 ELSE F[i - 1] * Pow2(LimbWidths[i]) + chunks[i]
  IN  F[Len(chunks)]
TopWindow(modulus) == modulus \div Pow2(BitLen(modulus) - requiredBits)
C13_ChunksReproduceWindow ==
  (Applied("extractRsaPassportKey") /\ BitLen(loc.args[1]) >= requiredBits) =>
    /\ loc.ret.ok
    /\ Len(loc.ret.key) = Len(chunkSizes)
    /\ \A i \in 1..Len(loc.ret.key) : loc.ret.key[i] < Pow2(LimbWidths[i])
    /\ LimbSum(loc.ret.key) = TopWindow(loc.args[1])
C13_Witness ==
  /\ Applied("extractRsaPassportKey")
  /\ BitLen(loc.args[1]) > requiredBits
  /\ loc.ret.ok
  /\ loc.ret.key[1] # loc.ret.key[Len(chunkSizes)]
  /\ loc.args[1] % 2 = 1

\* bit i of a byte string, bit 0 being the first (most significant) bit of
\* the first byte
BitAt(bytes, i) == (BytesToInt(bytes) \div Pow2(8 * Len(bytes) - 1 - i)) % 2
\* the first n bits of a byte string with the first bit as the most significant
MsbFirst(bytes, n) == BytesToInt(bytes) \div Pow2(8 * Len(bytes) - n)
\* the first n bits of a byte string with the first bit as the least significant
LsbFirst(bytes, n) ==
  LET F[k \in 0..n] == IF k = 0 THEN 0 ELSE F[k - 1] + BitAt(bytes, k - 1) * Pow2(k - 1)
  IN  F[n]

\* C14 as stated: the fallback key packs the first PackedBits bits of the
\* digest MSB-first, the first bit of the digest being the most significant
\* bit of the packed integer.
C14_PackedMsbFirst ==
  (Applied("getPassportHash") /\ loc.ret.ok) =>
    loc.ret.key = <<MsbFirst(passport.digest, PackedBits)>>

\* C14: the fallback key packs the first PackedBits bits of the digest with
\* bit i of the digest at weight 2^i: the first bit of the digest is the
\* least significant bit of the packed integer and bit PackedBits - 1 its
\* most significant one; no later bit of the digest is used.
C14_PackedFirstBitLowest ==
  (Applied("getPassportHash") /\ loc.ret.ok) =>
    /\ loc.ret.key = <<LsbFirst(passport.digest, PackedBits)>>
    /\ loc.ret.key[1] % 2 = BitAt(passport.digest, 0)
    /\ loc.ret.key[1] < Pow2(PackedBits)
C14_Witness ==
  /\ Applied("getPassportHash")
  /\ loc.ret.ok
  /\ BitAt(passport.digest, 0) = 1
  /\ BitAt(passport.digest, PackedBits - 1) = 0
  /\ loc.ret.key[1] % 2 = 1
  /\ loc.ret.key[1] < Pow2(PackedBits - 1)

\* C15: an RSA modulus shorter than requiredBits bits, and an EC key that is
\* not EcKeyLength bytes starting with 0x04, end the derivation with an error
\* and no key.
C15_BadKeyRejected ==
  /\ (Applied("extractRsaPassportKey") /\ BitLen(loc.args[1]) < requiredBits) =>
       loc.ret = KeyError(ErrModulusShort)
  /\ (Applied("extractEcdsaPassportKey")
      /\ (Len(loc.args[1]) # EcKeyLength \/ loc.args[1][1] # EC_UNCOMPRESSED)) =>
       loc.ret = KeyError(ErrEcFormat)
C15_Witness ==
  /\ Applied("extractRsaPassportKey")
  /\ BitLen(loc.args[1]) = requiredBits - 1
  /\ ~loc.ret.ok

\* the criteria of the applied check that are not the one looked at are off
OnlySex(c) ==
  /\ c.citizenshipWhitelist = {}
  /\ c.birthDateLowerbound = DateBound(0)
  /\ c.birthDateUpperbound = DateBound(0)
  /\ c.expirationDateLowerbound = DateBound(0)
OnlyBirth(c) ==
  /\ c.citizenshipWhitelist = {}
  /\ c.sex = 0
  /\ c.expirationDateLowerbound = DateBound(0)

\* C16: with a non-zero sex criterion the check passes the sex criterion
\* exactly when the criterion equals the ASCII value of the MRZ sex character
\* and fails with the sex-mismatch error otherwise; with a zero criterion it
\* passes for every document.
C16_SexCriterion ==
  (Applied("verifyPassport") /\ OnlySex(proposal.criteria)) =>
    IF proposal.criteria.sex = 0 \/ proposal.criteria.sex = passport.mrz.sex
    THEN loc.ret = NoError
    ELSE loc.ret = ErrSex

\* C17: with birth-date bounds that are not the sentinel, a document passes
\* the birth-date criterion exactly when its MRZ birth date is not earlier than
\* the date of the lower bound and not later than the date of the upper bound
\* (bounds and MRZ date compared in the encoding of ProposalCriteria), and is
\* rejected with the error of the violated bound otherwise.
C17_BirthDateBounds ==
  (Applied("verifyPassport") /\ OnlyBirth(proposal.criteria)
     /\ proposal.criteria.birthDateLowerbound # DateBound(0)
     /\ proposal.criteria.birthDateUpperbound # DateBound(0)
     /\ \A i \in 1..DateLen : IsDigit(passport.mrz.birthDate[i])) =>
    IF proposal.criteria.birthDateLowerbound > AsciiBigInt(passport.mrz.birthDate)
    THEN loc.ret = ErrBirthLower
    ELSE IF proposal.criteria.birthDateUpperbound < AsciiBigInt(passport.mrz.birthDate)
    THEN loc.ret = ErrBirthUpper
    ELSE loc.ret = NoError

\* C18: with the sentinel as lower and upper bound of the birth date and as
\* the bound of the expiration date, no MRZ date value is rejected: the check
\* ends with no error of a date predicate, whatever the MRZ dates are.
DateErrors == {ErrBirthLower, ErrBirthUpper, ErrExpiration, ErrSyntax}
C18_SentinelNeverRejects ==
  Applied("verifyPassport") =>
    LET c == proposal.criteria
        birthOff == c.birthDateLowerbound = DateBound(0) /\ c.birthDateUpperbound = DateBound(0)
        expiryOff == c.expirationDateLowerbound = DateBound(0)
    IN  /\ birthOff => loc.ret \notin {ErrBirthLower, ErrBirthUpper}
        /\ expiryOff => loc.ret # ErrExpiration
        /\ (birthOff /\ expiryOff /\ c.sex = 0) => loc.ret \notin DateErrors
C18_Witness ==
  /\ Applied("verifyPassport")
  /\ proposal.criteria.sex = 0
  /\ proposal.criteria.birthDateLowerbound = DateBound(0)
  /\ proposal.criteria.birthDateUpperbound = DateBound(0)
  /\ proposal.criteria.expirationDateLowerbound = DateBound(0)
  /\ passport.mrz.birthDate = FillerDate
  /\ passport.mrz.expiryDate = DateStr(MaxDate)
  /\ loc.ret = NoError

\* C19: the timing check passes exactly when startTimestamp <= current time
\* <= startTimestamp + duration; an earlier time fails as not started, a
\* later time as ended.
C19_TimingInclusive ==
  Applied("timingCheck") =>
    LET now == loc.args[1]
        end == proposal.startTimestamp + proposal.duration
    IN  /\ loc.ret = NoError <=> (proposal.startTimestamp <= now /\ now <= end)
        /\ now < proposal.startTimestamp => loc.ret = ErrNotStarted
        /\ now > end => loc.ret = ErrEnded
C19_Witness ==
  /\ Applied("timingCheck")
  /\ proposal.duration > 0
  /\ loc.args[1] = proposal.startTimestamp + proposal.duration
  /\ loc.ret = NoError

\* the strings of a sequence of strings joined in order
Concat(strs) ==
  LET F[i \in 0..Len(strs)] == IF i = 0 THEN <<>> ELSE F[i - 1] \o strs[i]
  IN  F[Len(strs)]
ExpectedPubSignals(name) == IF name = "query_identity" THEN 24 ELSE 3
ProveAnswered == Applied("prove") /\ loc.args[2] /\ loc.args[3] # <<>>

\* C20 as stated: for every non-empty prover string, prove returns
\* pubSignalsCount signals of exactly 64 hex characters each, taken in order
\* from the start of the string, and the remainder as the proof; signals and
\* proof joined give the prover's string; the count is 3 for a registration
\* circuit and 24 for the query-identity circuit.
C20_SignalsOfFullWidth ==
  ProveAnswered =>
    /\ loc.ret.ok
    /\ Len(loc.ret.pub_signals) = ExpectedPubSignals(loc.args[1].name)
    /\ \A i \in 1..Len(loc.ret.pub_signals) : Len(loc.ret.pub_signals[i]) = 64
    /\ Concat(loc.ret.pub_signals) \o loc.ret.proof = loc.args[3]

\* C20: for every non-empty prover string, prove returns pubSignalsCount
\* signals (3 for a registration circuit, 24 for the query-identity circuit)
\* that are consecutive pieces of the string from its start, and the rest as
\* the proof, so that signals and proof joined give the prover's string; every
\* signal has exactly 64 hex characters when the string has at least
\* pubSignalsCount * 64 characters, and in a shorter string the signals past
\* its end are shorter or empty and the proof is empty.
C20_SplitReproducesString ==
  ProveAnswered =>
    LET count == ExpectedPubSignals(loc.args[1].name)
        str == loc.args[3]
    IN  /\ loc.ret.ok
        /\ Len(loc.ret.pub_signals) = count
        /\ Concat(loc.ret.pub_signals) \o loc.ret.proof = str
        /\ \A i \in 1..count : Len(loc.ret.pub_signals[i]) <= 64
        /\ \A i \in 1..(count - 1) :
             Len(loc.ret.pub_signals[i]) < 64 => loc.ret.pub_signals[i + 1] = <<>>
        /\ Len(str) >= count * 64 =>
             \A i \in 1..count : Len(loc.ret.pub_signals[i]) = 64
        /\ Len(str) < count * 64 => loc.ret.proof = <<>>
C20_Witness ==
  /\ ProveAnswered
  /\ loc.args[1].name = "query_identity"
  /\ Len(loc.args[3]) > 24 * 64
  /\ Len(loc.ret.proof) > 0
  /\ Len(loc.ret.pub_signals) = 24

\* C21: when the prover answers with an empty or missing proof, proof
\* generation fails with the proof error and the flow it belongs to ends
\* there: the call of the prover is the last external call, so no relayer
\* request follows it.
C21_EmptyProofEndsFlow ==
  (InSeq(net, "provePlonk") /\ loc.proof \in {"", JsUndefined}) =>
    /\ pc = "done"
    /\ result = Error(ErrProofEmpty)
    /\ LastOf(net) = "provePlonk"
    /\ \A i \in 1..Len(net) : net[i] \notin {"POST registerid", "POST register", "POST vote"}
C21_Witness ==
  /\ op = "submit"
  /\ InSeq(net, "provePlonk")
  /\ loc.proof = JsUndefined
  /\ result = Error(ErrProofEmpty)

\* C22: the nullifier whose membership isAlreadyVoted queries in the proposal's
\* SMT is the padded hex of Poseidon(sk, Poseidon(sk), eventId), for the
\* caller's private scalar and the event id of the proposal, and of nothing
\* else: it is the same whatever the chain, the document and the clock are.
C22_NullifierOfKeyAndEvent ==
  loc.voteRead =>
    /\ loc.nullifier.pfx /\ loc.nullifier.len = PaddedHexLength
    /\ loc.nullifier.val =
         PoseidonHash(<<userPrivateKey.val, PoseidonHash(<<userPrivateKey.val>>),
                        EventIdOf(proposal.id)>>)

C22_Witness ==
  /\ op = "isAlreadyVoted"
  /\ pc = "done"
  /\ result = Ok(1)
  /\ loc.voteRead
  /\ loc.nullifier.val = <<userPrivateKey.val, <<userPrivateKey.val>>, EventIdOf(proposal.id)>>
  /\ loc.nullifier \in votingSmt

\* the OIDs of the hash-algorithm table and of the signature-family table
HashOidTable ==
  {"1.3.14.3.2.26", "1.2.840.113549.1.1.5",
   "2.16.840.1.101.3.4.2.4", "1.2.840.113549.1.1.14", "1.2.840.10045.4.3.1",
   "2.16.840.1.101.3.4.2.1", "1.2.840.113549.1.1.11", "1.2.840.10045.4.3.2",
   "2.16.840.1.101.3.4.2.2", "1.2.840.113549.1.1.12", "1.2.840.10045.4.3.3",
   "2.16.840.1.101.3.4.2.3", "1.2.840.113549.1.1.13", "1.2.840.10045.4.3.4"}
SignatureOidTable ==
  {"1.2.840.113549.1.1.5", "1.2.840.113549.1.1.14", "1.2.840.113549.1.1.11",
   "1.2.840.113549.1.1.12", "1.2.840.113549.1.1.13", "1.2.840.113549.1.1.1",
   "1.2.840.113549.1.1.10", "1.2.840.10045.4.3.1", "1.2.840.10045.4.3.2",
   "1.2.840.10045.4.3.3", "1.2.840.10045.4.3.4"}
HashAlgorithmTypes == {"SHA1", "SHA224", "SHA256", "SHA384", "SHA512"}
SignatureAlgorithmTypes == {"RSA", "RSA-PSS", "ECDSA"}

\* C23: a lookup of an OID that is not in its table (the hash-algorithm table
\* for HashAlgorithm.fromOid, the signature-family table for
\* SignatureAlgorithm.fromOID) ends with the unsupported-algorithm error and
\* returns no algorithm; an OID of the table gets an algorithm.
C23_UnknownOidUnsupported ==
  /\ Applied("HashAlgorithm.fromOid") =>
       IF loc.args[1] \in HashOidTable THEN loc.ret \in HashAlgorithmTypes
       ELSE loc.ret = Unsupported /\ loc.ret \notin HashAlgorithmTypes
  /\ Applied("SignatureAlgorithm.fromOID") =>
       IF loc.args[1] \in SignatureOidTable THEN loc.ret \in SignatureAlgorithmTypes
       ELSE loc.ret = Unsupported /\ loc.ret \notin SignatureAlgorithmTypes

C23_Witness ==
  /\ Applied("HashAlgorithm.fromOid")
  /\ loc.args[1] = "2.16.840.1.101.3.4.2.1 "
  /\ loc.ret = Unsupported

\* C24: whenever a relayer request (registerid, register, vote) was answered
\* with a status outside 200..299, the error the flow ends with carries the
\* body of the response.
C24_Non2xxErrorHasBody ==
  (loc.httpStatus # 0 /\ ~IsOk(loc.httpStatus)) =>
    /\ pc = "done"
    /\ result = Error(ErrHttpBody)

\* C25: the constructor fails for every userPrivateKey that, with an optional
\* "0x" removed, is not exactly PrivateKeyLength hexadecimal characters, and
\* keeps the stripped key otherwise.
C25_InvalidKeyRejected ==
  Applied("Rarime.constructor") =>
    LET key == loc.args[1]
    IN  IF key.len = PrivateKeyLength /\ key.hex
        THEN loc.ret.ok /\ ~loc.ret.key.pfx /\ loc.ret.key.val = key.val
        ELSE ~loc.ret.ok

\* C27: when the vote is posted, the registration SMT root in its call data is
\* the id_state_root the query proof of the same submission was generated
\* with, whatever updates of the registration tree happened in between.
C27_CallDataRootIsProofRoot ==
  (op = "submit" /\ InSeq(net, "POST vote")) =>
    /\ loc.inputs.set
    /\ loc.callRoot = loc.inputs.id_state_root

\* the downloads a proof generation makes when it runs alone from the files
\* it found when it started
AloneRequests(job) ==
  LET setup == IF TrustedSetupFile \in job.startFiles THEN <<>> ELSE <<TrustedSetupFile>>
      code == IF ByteCodeFile(job.circuit) \in job.startFiles THEN <<>>
              ELSE <<ByteCodeFile(job.circuit)>>
  IN  setup \o code

\* C26: a proof generation that runs concurrently with another one shares no
\* mutable state with it: when it ends with a proof it has sent the requests
\* it sends when it runs alone, whatever the other did in between.
C26_FlowsShareNoState ==
  \A j \in Jobs :
    (jobs[j].pc = "done" /\ jobs[j].result = "proof") =>
      jobs[j].requests = AloneRequests(jobs[j])

\* C28: whatever proof generations ran, one after the other or concurrently,
\* every artifact (the trusted setup, the bytecode of each circuit name) was
\* downloaded at most once, and a generation that found an artifact cached
\* did not request it.
C28_ArtifactDownloadedOnce ==
  /\ \A file \in Artifacts : downloads[file] <= 1
  /\ \A j \in Jobs : \A i \in 1..Len(jobs[j].requests) :
       jobs[j].requests[i] \notin jobs[j].startFiles

\* C29: every OID the signature-family lookup accepts also resolves in the
\* hash-algorithm lookup, and getPassportHash of a document whose SOD
\* signature algorithm the signature-family lookup accepts returns a hash
\* and no unsupported-algorithm error.
C29_SupportedSignatureHashes ==
  /\ (Applied("HashAlgorithm.fromOid")
      /\ SignatureAlgorithmFromOID(loc.args[1]) # Unsupported) =>
       loc.ret # Unsupported
  /\ (Applied("getPassportHash")
      /\ SignatureAlgorithmFromOID(passport.sigAlgo) # Unsupported) =>
       loc.ret.ok

\* C30: for every answer index v the mask encoded for it, in the event data
\* that is hashed and in the vote call data, is the unsigned integer 2^v.
C30_VoteMaskIsPowerOfTwo ==
  Applied("encodeVotes") =>
    LET v == loc.args[1]
    IN  /\ loc.ret.masks = <<Pow2(v)>>
        /\ loc.ret.eventData = KeyOk(Keccak248(<<Pow2(v)>>))
        /\ loc.ret.userData = KeyOk(<<Pow2(v)>>)

====
